---------------------------- MODULE Spec2Model ----------------------------
(***************************************************************************)
(* Verification model of the ocean_blue analytics and scoring code.        *)
(*                                                                         *)
(*   Spec      the fisheries decision engine (src/src/utils/fisheries.js): *)
(*             evaluateSuitability, calculateSustainabilityScore and       *)
(*             generateFisheriesAlerts called on a species list, a         *)
(*             current-conditions snapshot and the wall clock.             *)
(*   SpecRisk  the unified risk framework, GET /api/fisheries              *)
(*             (src/api/buoy-historical.js).                               *)
(*   SpecBuoy  the live feed, /api/buoy (src/api/buoy.js and the Express   *)
(*             handler of src/api/buoy-historical.js).                     *)
(*   SpecHist  the historical archive, /api/buoy-historical.               *)
(*   SpecChart computeStats and computeMovingAverage as HistoricalChart    *)
(*             calls them.                                                 *)
(*   SpecApp   the App component (src/unnamed/part_001): parameter        *)
(*             toggles, the view mode and the year filter over the rows    *)
(*             its archive hook returns.                                   *)
(*                                                                         *)
(* JavaScript numbers are modelled as IEEE-754 doubles: every arithmetic   *)
(* operation is computed exactly and rounded to 53 bits, so that the       *)
(* rounding of 0.1 + 0.2, a division by zero or a NaN flows through the    *)
(* arithmetic exactly as it does in the program. Strings the program       *)
(* inspects are sequences of characters.                                   *)
(* Temperatures are carried in tenths of a degree Celsius and wave heights *)
(* in tenths of a metre.                                                   *)
(***************************************************************************)
EXTENDS Integers, Sequences, FiniteSets

VARIABLES
    \* ---- fisheries decision engine -------------------------------------
    clock,              \* the wall clock: the date new Date() returns
    ticks,              \* how often the clock has moved on to another date
    speciesList,        \* the species records handed to the engine
    currentData,        \* [sea_surface_temp, wave_height] snapshot
    fn,                 \* the engine function called last
    evalDates,          \* the date of each evaluateSuitability call of the map
    evaluationResults,  \* what the calls of the map returned so far, in list order
    sustainabilityScore,\* calculateSustainabilityScore's return value
    scoreArg,           \* the score handed to generateFisheriesAlerts
    alerts,             \* generateFisheriesAlerts's return value
    \* ---- risk framework (GET /api/fisheries) ---------------------------
    rpc,                \* position of the request handler
    regionQuery,        \* req.query.region?.toLowerCase()
    sstFeed,            \* what the upstream SST request will answer
    sst_avg,            \* climateStressData.sst_avg
    fileExists,         \* fs.existsSync(filePath)
    fileRows,           \* CSV rows the stream has not emitted yet
    results,            \* records kept by the 'data' handler
    emitted,            \* CSV rows the stream has emitted so far
    response,           \* what res.json / res.status().json sent
    \* ---- live feed (/api/buoy) ------------------------------------------
    bpc,                \* position of the request handler
    bVariant,           \* "serverless" (api/buoy.js) or "express" (app.get)
    bLat,               \* req.query.lat, its characters
    bLon,               \* req.query.lon, its characters
    marineFeed,         \* what the marine request will answer
    weatherFeed,        \* what the forecast request will answer
    bRequests,          \* the upstream requests issued, in order
    bResponses,         \* the responses sent, in order
    \* ---- historical archive (/api/buoy-historical) ----------------------
    hpc,                \* position of the request handler
    hVariant,           \* "serverless" (handler) or "express" (app.get)
    hFileExists,        \* fs.existsSync(filePath)
    hFile,              \* the rows of the CSV file
    hPos,               \* how many of them the parser has emitted
    hResults,           \* the results array
    hResponses,         \* the responses sent, in order
    \* ---- historical chart analytics (utils/anomaly) ---------------------
    observations,       \* the observation series handed to the chart (data)
    paramKey,           \* the parameter key of the calls
    windowSize,         \* the window of computeMovingAverage
    cfn,                \* the analytics function called last
    statsOut,           \* computeStats's return value
    maCalls,            \* how often computeMovingAverage was called
    maOut,              \* computeMovingAverage's return value
    maPrev,             \* and what the call before returned
    \* ---- App component --------------------------------------------------
    activeParams,       \* useState(['sea_surface_temp', 'wind_speed', 'air_pressure'])
    viewMode,           \* 'live' | 'historical'
    selectedYear,       \* the year of the year filter
    maxRenderRows,      \* the render cap in force
    archive,            \* the rows of the archive
    histAllData,        \* allData as useHistoricalBuoyData returns it
    hasLoaded,          \* hasLoaded as useHistoricalBuoyData returns it
    histLoading,        \* loading as useHistoricalBuoyData returns it
    filteredHistorical  \* the rows handed to the historical chart and analytics

fishVars == <<clock, ticks, speciesList, currentData, fn, evalDates, evaluationResults,
              sustainabilityScore, scoreArg, alerts>>
riskVars == <<rpc, regionQuery, sstFeed, sst_avg, fileExists, fileRows, results, emitted,
              response>>
buoyVars == <<bpc, bVariant, bLat, bLon, marineFeed, weatherFeed, bRequests, bResponses>>
histVars == <<hpc, hVariant, hFileExists, hFile, hPos, hResults, hResponses>>
chartVars == <<observations, paramKey, windowSize, cfn, statsOut, maCalls, maOut, maPrev>>
appVars == <<activeParams, viewMode, selectedYear, maxRenderRows, archive, histAllData,
             hasLoaded, histLoading, filteredHistorical>>
otherVars == <<buoyVars, histVars, chartVars, appVars>>
vars == <<fishVars, riskVars, otherVars>>

----------------------------------------------------------------------------
(* Bounds of the model. *)

MaxSpecies == 2
MaxTicks == 1
MaxRows == 2
MaxHours == 2
MaxSeries == 3
MaxArchive == 4

----------------------------------------------------------------------------
(* JavaScript numbers: IEEE-754 double precision.                          *)
(*                                                                         *)
(* A finite number is [k |-> "fin", s, m, e] and stands for s * m * 2^e:   *)
(* s is 1 or -1, e an integer, and m a natural number written as its limbs *)
(* in base 2^15, least significant first, without leading zero limbs; m is *)
(* odd, or <<>> (zero, with e = 0, where s = -1 is the number -0). Every   *)
(* operation computes the exact result and rounds it to 53 significant     *)
(* bits, ties to even, with gradual underflow below 2^-1022 and overflow   *)
(* to the infinities from 2^1024.                                          *)

Limb == 2^15
Precision == 52 + 1
MinExponent == -(1022 + 52)
MaxBits == 1023 + 1

Abs(x) == IF x < 0 THEN -x ELSE x
Max2(x, y) == IF x < y THEN y ELSE x
Min2(x, y) == IF x < y THEN x ELSE y

RECURSIVE BitLength(_)
\* the number of bits of a natural number below 2^31
BitLength(x) == IF x = 0 THEN 0 ELSE 1 + BitLength(x \div 2)

\* a limb sequence without its leading zero limbs
BigStrip(a) ==
    LET used == {i \in DOMAIN a : a[i] # 0}
    IN  IF used = {} THEN <<>>
        ELSE SubSeq(a, 1, CHOOSE i \in used : \A j \in used : j <= i)

RECURSIVE BigOfNat(_)
\* the limbs of a natural number below 2^31
BigOfNat(x) == IF x = 0 THEN <<>> ELSE <<x % Limb>> \o BigOfNat(x \div Limb)

RECURSIVE Carry(_, _, _, _)
\* the columns lo..hi of cols, each an integer, brought into 0..Limb-1 from
\* the lowest up, after a carry in: the limbs d and the carry out c. The
\* range is halved so that the depth of the recursion is logarithmic.
Carry(cols, lo, hi, carry) ==
    IF lo > hi THEN [d |-> <<>>, c |-> carry]
    ELSE IF lo = hi
    THEN LET t == cols[lo] + carry IN [d |-> <<t % Limb>>, c |-> t \div Limb]
    ELSE LET mid == (lo + hi) \div 2
             low == Carry(cols, lo, mid, carry)
             high == Carry(cols, mid + 1, hi, low.c)
         IN  [d |-> low.d \o high.d, c |-> high.c]

\* the limbs of a carried result: its limbs d, then its carry out c
Carried(res) == BigStrip(res.d \o BigOfNat(res.c))

\* the limbs of the natural number with these columns and carry in
Normalise(cols, carry) == Carried(Carry(cols, 1, Len(cols), carry))

LimbAt(a, i) == IF i \in DOMAIN a THEN a[i] ELSE 0

\* a + b
BigAdd(a, b) ==
    Normalise([i \in 1..Max2(Len(a), Len(b)) |-> LimbAt(a, i) + LimbAt(b, i)], 0)

\* a - b for a >= b
BigSub(a, b) ==
    BigStrip(Carry([i \in 1..Len(a) |-> a[i] - LimbAt(b, i)], 1, Len(a), 0).d)

\* -1, 0 or 1 as a < b, a = b or a > b
BigCmp(a, b) ==
    IF Len(a) < Len(b) THEN -1
    ELSE IF Len(a) > Len(b) THEN 1
    ELSE LET differ == {i \in DOMAIN a : a[i] # b[i]}
         IN  IF differ = {} THEN 0
             ELSE LET top == CHOOSE i \in differ : \A j \in differ : j <= i
                  IN  IF a[top] < b[top] THEN -1 ELSE 1

\* a * x + carry for x and carry below 2^15
BigMulSmall(a, x, carry) == Normalise([i \in DOMAIN a |-> a[i] * x], carry)

RECURSIVE BigMulRange(_, _, _, _)
\* a times the limbs lo..hi of b, each in its place
BigMulRange(a, b, lo, hi) ==
    IF lo = hi
    THEN (IF b[lo] = 0 THEN <<>> ELSE [i \in 1..(lo - 1) |-> 0] \o BigMulSmall(a, b[lo], 0))
    ELSE LET mid == (lo + hi) \div 2
         IN  BigAdd(BigMulRange(a, b, lo, mid), BigMulRange(a, b, mid + 1, hi))

\* a * b
BigMul(a, b) == IF a = <<>> \/ b = <<>> THEN <<>> ELSE BigMulRange(a, b, 1, Len(b))

RECURSIVE BigDivSmallRange(_, _, _, _, _)
\* short division of the limbs hi down to lo of a by x after the remainder r:
\* the quotient limbs q of those places, the highest first, and the remainder
BigDivSmallRange(a, x, lo, hi, r) ==
    IF lo > hi THEN [q |-> <<>>, r |-> r]
    ELSE IF lo = hi
    THEN LET t == r * Limb + a[lo] IN [q |-> <<t \div x>>, r |-> t % x]
    ELSE LET mid == (lo + hi) \div 2
             high == BigDivSmallRange(a, x, mid + 1, hi, r)
             low == BigDivSmallRange(a, x, lo, mid, high.r)
         IN  [q |-> high.q \o low.q, r |-> low.r]

Reverse(seq) == [i \in DOMAIN seq |-> seq[Len(seq) + 1 - i]]

\* a division's result with the quotient limbs turned lowest first
Quotient(res) == [q |-> BigStrip(Reverse(res.q)), r |-> res.r]

\* quotient and remainder of a by x, 0 < x <= 2^15
BigDivSmall(a, x) == Quotient(BigDivSmallRange(a, x, 1, Len(a), 0))

BigBitLength(a) ==
    IF a = <<>> THEN 0 ELSE 15 * (Len(a) - 1) + BitLength(a[Len(a)])

\* a * 2^n
BigShl(a, n) ==
    IF a = <<>> THEN a
    ELSE [i \in 1..(n \div 15) |-> 0] \o BigMulSmall(a, 2^(n % 15), 0)

\* floor(a / 2^n)
BigShr(a, n) ==
    IF n \div 15 >= Len(a) THEN <<>>
    ELSE BigDivSmall(SubSeq(a, n \div 15 + 1, Len(a)), 2^(n % 15)).q

\* bit i of a, bit 0 being the lowest
BigBit(a, i) ==
    IF i < 0 \/ i \div 15 >= Len(a) THEN 0
    ELSE (a[i \div 15 + 1] \div 2^(i % 15)) % 2

\* some bit of a below bit n is set
BigLowBits(a, n) ==
    \E j \in 1..Min2(Len(a), (n + 14) \div 15) :
        IF j <= n \div 15 THEN a[j] # 0 ELSE a[j] % 2^(n % 15) # 0

RECURSIVE TrailingZeros(_)
TrailingZeros(x) == IF x % 2 = 1 THEN 0 ELSE 1 + TrailingZeros(x \div 2)

\* the number of zero bits below the lowest set bit of a # 0
BigTrailingZeros(a) ==
    LET first == CHOOSE i \in DOMAIN a : a[i] # 0 /\ \A j \in 1..(i - 1) : a[j] = 0
    IN  15 * (first - 1) + TrailingZeros(a[first])

RECURSIVE BigDigit(_, _, _, _)
\* the largest d in lo..hi with b * d <= r, given b * lo <= r
BigDigit(r, b, lo, hi) ==
    IF lo = hi THEN lo
    ELSE LET mid == (lo + hi + 1) \div 2
         IN  IF BigCmp(BigMulSmall(b, mid, 0), r) <= 0
             THEN BigDigit(r, b, mid, hi)
             ELSE BigDigit(r, b, lo, mid - 1)

\* one place of the long division: the digit d and what it leaves of r
BigDivStep(r, b, d) ==
    [q |-> <<d>>, r |-> IF d = 0 THEN r ELSE BigSub(r, BigMulSmall(b, d, 0))]

RECURSIVE BigDivRange(_, _, _, _, _)
\* long division of the limbs hi down to lo of a by b after the remainder r:
\* the quotient limbs of those places, the highest first, and the remainder
BigDivRange(a, b, lo, hi, r) ==
    IF lo > hi THEN [q |-> <<>>, r |-> r]
    ELSE IF lo = hi
    THEN LET r2 == IF r = <<>> /\ a[lo] = 0 THEN <<>> ELSE <<a[lo]>> \o r
         IN  BigDivStep(r2, b, BigDigit(r2, b, 0, Limb - 1))
    ELSE LET mid == (lo + hi) \div 2
             high == BigDivRange(a, b, mid + 1, hi, r)
             low == BigDivRange(a, b, lo, mid, high.r)
         IN  [q |-> high.q \o low.q, r |-> low.r]

\* quotient and remainder of a by b # 0
BigDivMod(a, b) ==
    IF Len(b) = 1 THEN [BigDivSmall(a, b[1]) EXCEPT !.r = BigOfNat(@)]
    ELSE Quotient(BigDivRange(a, b, 1, Len(a), <<>>))

NaN == [k |-> "nan", s |-> 1, m |-> <<>>, e |-> 0]
PosInf == [k |-> "inf", s |-> 1, m |-> <<>>, e |-> 0]
NegInf == [k |-> "inf", s |-> -1, m |-> <<>>, e |-> 0]
JsonNull == [k |-> "null", s |-> 1, m |-> <<>>, e |-> 0]
InfOf(s) == IF s < 0 THEN NegInf ELSE PosInf
Zero(s) == [k |-> "fin", s |-> s, m |-> <<>>, e |-> 0]

IsFin(a) == a.k = "fin"
IsNaN(a) == a.k = "nan"
IsInf(a) == a.k = "inf"
IsZero(a) == a.k = "fin" /\ a.m = <<>>

\* s * m * 2^e with the z trailing zero bits of m moved into the exponent
OddMantissa(s, m, e, z) ==
    [k |-> "fin", s |-> s, m |-> IF z = 0 THEN m ELSE BigShr(m, z), e |-> e + z]

\* the number s * m * 2^e, which needs no rounding, in its one representation
Exact(s, m, e) ==
    IF m = <<>> THEN Zero(s)
    ELSE IF BigBitLength(m) + e > MaxBits THEN InfOf(s)
    ELSE OddMantissa(s, m, e, BigTrailingZeros(m))

\* m, or m + 1 when rounding up
RoundedUp(m, up) == IF up THEN BigAdd(m, <<1>>) ELSE m

\* s * (m + f) * 2^e rounded at bit drop of m: the bits below are dropped,
\* rounding up from the half, and on a tie to the even mantissa
RoundAt(s, m, e, sticky, drop) ==
    IF drop <= 0 THEN Exact(s, m, e)
    ELSE Exact(s,
               RoundedUp(BigShr(m, drop),
                         /\ BigBit(m, drop - 1) = 1
                         /\ \/ sticky
                            \/ BigLowBits(m, drop - 1)
                            \/ BigBit(m, drop) = 1),
               e + drop)

\* the double nearest s * (m + f) * 2^e, where 0 <= f < 1 and sticky tells
\* whether f > 0 (m then has more than Precision + 1 bits); ties to even
Round(s, m, e, sticky) ==
    RoundAt(s, m, e, sticky, Max2(e + BigBitLength(m) - Precision, MinExponent) - e)

\* the integer i as a number
Num(i) == Exact(IF i < 0 THEN -1 ELSE 1, BigOfNat(Abs(i)), 0)

\* the double nearest s * (res.q + f) * 2^e for a division's result res,
\* f > 0 when it left a remainder
RoundQuotient(s, res, e) == Round(s, res.q, e, res.r # <<>>)

\* the double nearest s * (p / q) * 2^e, the quotient taken of p * 2^shift
\* so that it has more than Precision + 1 bits
ShiftedRatio(s, p, q, e, shift) ==
    RoundQuotient(s, BigDivMod(BigShl(p, shift), q), e - shift)

\* the double nearest s * (p / q) * 2^e for limb sequences p # 0 and q # 0
Ratio(s, p, q, e) ==
    ShiftedRatio(s, p, q, e, Max2(0, Precision + 2 + BigBitLength(q) - BigBitLength(p)))

\* the double nearest p / q for limb sequences p and q # 0
RoundRatio(s, p, q) == IF p = <<>> THEN Zero(s) ELSE Ratio(s, p, q, 0)

\* the numeric literal n/d written in decimal (0.4 is Fin(4, 10)), d > 0
Fin(n, d) == RoundRatio(IF n < 0 THEN -1 ELSE 1, BigOfNat(Abs(n)), BigOfNat(d))

\* -a
JsNeg(a) == IF a.k \in {"fin", "inf"} THEN [a EXCEPT !.s = -a.s] ELSE a

\* -1, 0 or 1 as |a| < |b|, |a| = |b| or |a| > |b|, for finite a and b
CmpMagnitude(a, b) ==
    IF a.m = <<>> THEN (IF b.m = <<>> THEN 0 ELSE -1)
    ELSE IF b.m = <<>> THEN 1
    ELSE LET ta == BigBitLength(a.m) + a.e
             tb == BigBitLength(b.m) + b.e
         IN  IF ta < tb THEN -1
             ELSE IF ta > tb THEN 1
             ELSE LET low == Min2(a.e, b.e)
                  IN  BigCmp(BigShl(a.m, a.e - low), BigShl(b.m, b.e - low))

\* sa * x * 2^low + sb * y * 2^low, where c compares x with y
AddMagnitudes(sa, x, sb, y, low, c) ==
    IF sa = sb THEN Round(sa, BigAdd(x, y), low, FALSE)
    ELSE IF c = 0 THEN Zero(1)
    ELSE Round(IF c > 0 THEN sa ELSE sb,
               IF c > 0 THEN BigSub(x, y) ELSE BigSub(y, x), low, FALSE)

\* the sum of the finite a and b # 0 with the mantissas x and y at the
\* exponent low
AddMantissas(a, x, b, y, low) == AddMagnitudes(a.s, x, b.s, y, low, BigCmp(x, y))

\* the sum of the finite a and b # 0, both brought to the lower exponent
AddAligned(a, b, low) ==
    AddMantissas(a, BigShl(a.m, a.e - low), b, BigShl(b.m, b.e - low), low)

\* a + b
JsAdd(a, b) ==
    IF IsNaN(a) \/ IsNaN(b) THEN NaN
    ELSE IF IsInf(a) /\ IsInf(b) THEN (IF a.s = b.s THEN a ELSE NaN)
    ELSE IF IsInf(a) THEN a
    ELSE IF IsInf(b) THEN b
    ELSE IF a.m = <<>> /\ b.m = <<>> THEN Zero(IF a.s = -1 /\ b.s = -1 THEN -1 ELSE 1)
    ELSE IF a.m = <<>> THEN b
    ELSE IF b.m = <<>> THEN a
    ELSE AddAligned(a, b, Min2(a.e, b.e))

\* a * b
JsMul(a, b) ==
    IF IsNaN(a) \/ IsNaN(b) THEN NaN
    ELSE IF IsInf(a) \/ IsInf(b)
         THEN (IF IsZero(a) \/ IsZero(b) THEN NaN ELSE InfOf(a.s * b.s))
    ELSE Round(a.s * b.s, BigMul(a.m, b.m), a.e + b.e, FALSE)

\* a - b
JsSub(a, b) == JsAdd(a, JsNeg(b))

\* a / b
JsDiv(a, b) ==
    IF IsNaN(a) \/ IsNaN(b) THEN NaN
    ELSE IF IsInf(a) THEN (IF IsInf(b) THEN NaN ELSE InfOf(a.s * b.s))
    ELSE IF IsInf(b) THEN Zero(a.s * b.s)
    ELSE IF b.m = <<>> THEN (IF a.m = <<>> THEN NaN ELSE InfOf(a.s * b.s))
    ELSE IF a.m = <<>> THEN Zero(a.s * b.s)
    ELSE Ratio(a.s * b.s, a.m, b.m, a.e - b.e)

\* a < b  (false whenever an operand is NaN; -0 is not below 0)
JsLt(a, b) ==
    IF IsNaN(a) \/ IsNaN(b) THEN FALSE
    ELSE IF IsInf(a) THEN a.s < 0 /\ ~(IsInf(b) /\ b.s < 0)
    ELSE IF IsInf(b) THEN b.s > 0
    ELSE IF a.m = <<>> THEN b.m # <<>> /\ b.s > 0
    ELSE IF b.m = <<>> THEN a.s < 0
    ELSE IF a.s # b.s THEN a.s < 0
    ELSE IF a.s > 0 THEN CmpMagnitude(a, b) < 0
    ELSE CmpMagnitude(a, b) > 0

JsGt(a, b) == JsLt(b, a)
JsLe(a, b) == ~IsNaN(a) /\ ~IsNaN(b) /\ ~JsLt(b, a)
JsGe(a, b) == JsLe(b, a)

\* Math.min(a, b) and Math.max(a, b): NaN when either argument is NaN, and -0
\* counts as smaller than 0
MathMin(a, b) ==
    IF IsNaN(a) \/ IsNaN(b) THEN NaN
    ELSE IF JsLt(b, a) THEN b
    ELSE IF JsLt(a, b) THEN a
    ELSE IF a.s < 0 THEN a ELSE b
MathMax(a, b) ==
    IF IsNaN(a) \/ IsNaN(b) THEN NaN
    ELSE IF JsGt(b, a) THEN b
    ELSE IF JsGt(a, b) THEN a
    ELSE IF a.s > 0 THEN a ELSE b

\* Math.round(a): the integer nearest a, ties towards +Infinity; NaN, the
\* infinities and integers are returned unchanged, and a negative number
\* rounding to zero gives -0
MathRound(a) ==
    IF ~IsFin(a) \/ a.e >= 0 THEN a
    ELSE Exact(a.s,
               RoundedUp(BigShr(a.m, -a.e),
                         /\ BigBit(a.m, -a.e - 1) = 1
                         /\ (a.s > 0 \/ BigLowBits(a.m, -a.e - 1))),
               0)

\* JSON.stringify of a number inside res.json: NaN and +-Infinity become null
\* and -0 is written 0
JsonNumber(a) == IF ~IsFin(a) THEN JsonNull ELSE IF a.m = <<>> THEN Zero(1) ELSE a

RECURSIVE BigToNat(_)
BigToNat(a) == IF a = <<>> THEN 0 ELSE Head(a) + Limb * BigToNat(Tail(a))

\* a finite number that is an integer of magnitude below 2^30
IsSmallInteger(v) == v.k = "fin" /\ v.e >= 0 /\ BigBitLength(v.m) + v.e <= 30

\* the value of such a number
IntegerValue(v) == v.s * BigToNat(v.m) * 2^v.e

\* a response field that is a finite number / an integer within lo..hi
IsFiniteNumber(v) == v.k = "fin"
IsIntegerIn(v, lo, hi) ==
    IsSmallInteger(v) /\ lo <= IntegerValue(v) /\ IntegerValue(v) <= hi

----------------------------------------------------------------------------
(* Strings the program inspects are sequences of one-character strings     *)
(* over ASCII.                                                             *)

UpperCase == <<"A", "B", "C", "D", "E", "F", "G", "H", "I", "J", "K", "L", "M",
               "N", "O", "P", "Q", "R", "S", "T", "U", "V", "W", "X", "Y", "Z">>
LowerCase == <<"a", "b", "c", "d", "e", "f", "g", "h", "i", "j", "k", "l", "m",
               "n", "o", "p", "q", "r", "s", "t", "u", "v", "w", "x", "y", "z">>

LowerChar(c) ==
    IF \E i \in DOMAIN UpperCase : UpperCase[i] = c
    THEN LowerCase[CHOOSE i \in DOMAIN UpperCase : UpperCase[i] = c]
    ELSE c

\* String.prototype.toLowerCase
ToLowerCase(str) == [i \in DOMAIN str |-> LowerChar(str[i])]

\* the character U+000B
VerticalTab == ""

\* white space and line terminators
WhiteSpace == {" ", "\t", "\n", VerticalTab, "\f", "\r"}

RECURSIVE TrimStart(_)
TrimStart(chars) ==
    IF chars # <<>> /\ Head(chars) \in WhiteSpace THEN TrimStart(Tail(chars)) ELSE chars

RECURSIVE TrimEnd(_)
TrimEnd(chars) ==
    IF chars # <<>> /\ chars[Len(chars)] \in WhiteSpace
    THEN TrimEnd(SubSeq(chars, 1, Len(chars) - 1))
    ELSE chars

Digits == {"0", "1", "2", "3", "4", "5", "6", "7", "8", "9"}
HexDigits == <<"0", "1", "2", "3", "4", "5", "6", "7", "8", "9",
               "a", "b", "c", "d", "e", "f">>

\* the value of a digit in a radix up to 16, or -1
DigitValue(c, radix) ==
    LET low == LowerChar(c)
    IN  IF \E i \in 1..radix : HexDigits[i] = low
        THEN (CHOOSE i \in 1..radix : HexDigits[i] = low) - 1
        ELSE -1

RECURSIVE DigitRun(_, _)
\* the number of decimal digits of chars from position i on
DigitRun(chars, i) ==
    IF i > Len(chars) \/ chars[i] \notin Digits THEN 0 ELSE 1 + DigitRun(chars, i + 1)

RECURSIVE SmallOfDigits(_, _)
\* the value of a run of decimal digits, held at 10^6 once it is that large
SmallOfDigits(digits, acc) ==
    IF digits = <<>> THEN acc
    ELSE SmallOfDigits(Tail(digits),
                       Min2(10^6, 10 * acc + DigitValue(Head(digits), 10)))

RECURSIVE BigPow(_, _)
\* base^n for a base below 2^15, by squaring
BigPow(base, n) ==
    IF n = 0 THEN <<1>>
    ELSE LET half == BigPow(base, n \div 2)
             square == BigMul(half, half)
         IN  IF n % 2 = 0 THEN square ELSE BigMulSmall(square, base, 0)

BigPow10(n) == BigPow(10, n)

RECURSIVE BigOfDigitRange(_, _, _, _)
\* the natural number written by the digits lo..hi in the radix
BigOfDigitRange(digits, radix, lo, hi) ==
    IF lo > hi THEN <<>>
    ELSE IF lo = hi THEN BigOfNat(DigitValue(digits[lo], radix))
    ELSE LET mid == (lo + hi) \div 2
         IN  BigAdd(BigMul(BigOfDigitRange(digits, radix, lo, mid), BigPow(radix, hi - mid)),
                    BigOfDigitRange(digits, radix, mid + 1, hi))

BigOfDigits(digits, radix) == BigOfDigitRange(digits, radix, 1, Len(digits))

RECURSIVE LeadingZeros(_)
LeadingZeros(digits) ==
    IF digits # <<>> /\ Head(digits) = "0" THEN 1 + LeadingZeros(Tail(digits)) ELSE 0

\* the double nearest big * 10^exp10 with sign s
ScaledDecimal(s, big, exp10) ==
    IF exp10 >= 0 THEN Round(s, BigMul(big, BigPow10(exp10)), 0, FALSE)
    ELSE RoundRatio(s, big, BigPow10(-exp10))

\* the double nearest digits * 10^exp10 with sign s
DecimalNumber(s, digits, exp10) ==
    LET zeros == LeadingZeros(digits)
        size == Len(digits) - zeros + exp10
    IN  IF zeros = Len(digits) THEN Zero(s)
        ELSE IF size > 310 THEN InfOf(s)
        ELSE IF size < -325 THEN Zero(s)
        ELSE ScaledDecimal(s, BigOfDigits(digits, 10), exp10)

\* the longest unsigned decimal literal at the front of chars: digits with an
\* optional fraction and an optional exponent; len is 0 when there is none
DecimalLiteral(chars) ==
    LET n1 == DigitRun(chars, 1)
        hasDot == n1 < Len(chars) /\ chars[n1 + 1] = "."
        n2 == IF hasDot THEN DigitRun(chars, n1 + 2) ELSE 0
        ok == n1 > 0 \/ n2 > 0
        mantissaEnd == IF hasDot THEN n1 + 1 + n2 ELSE n1
        hasE == mantissaEnd < Len(chars) /\ chars[mantissaEnd + 1] \in {"e", "E"}
        hasSign == hasE /\ mantissaEnd + 1 < Len(chars)
                     /\ chars[mantissaEnd + 2] \in {"+", "-"}
        expStart == mantissaEnd + 2 + (IF hasSign THEN 1 ELSE 0)
        n3 == IF hasE THEN DigitRun(chars, expStart) ELSE 0
        expValue == SmallOfDigits(SubSeq(chars, expStart, expStart + n3 - 1), 0)
        exp == IF n3 = 0 THEN 0
               ELSE IF hasSign /\ chars[mantissaEnd + 2] = "-" THEN -expValue
               ELSE expValue
    IN  IF ~ok THEN [len |-> 0, digits |-> <<>>, exp10 |-> 0]
        ELSE [len |-> IF n3 > 0 THEN expStart + n3 - 1 ELSE mantissaEnd,
              digits |-> SubSeq(chars, 1, n1) \o SubSeq(chars, n1 + 2, n1 + 1 + n2),
              exp10 |-> exp - n2]

InfinityWord == <<"I", "n", "f", "i", "n", "i", "t", "y">>

StartsWith(chars, prefix) ==
    Len(chars) >= Len(prefix) /\ SubSeq(chars, 1, Len(prefix)) = prefix

\* the radix of a 0x, 0o or 0b literal, or 0
PrefixRadix(chars) ==
    IF Len(chars) < 2 \/ chars[1] # "0" THEN 0
    ELSE IF chars[2] \in {"x", "X"} THEN 16
    ELSE IF chars[2] \in {"o", "O"} THEN 8
    ELSE IF chars[2] \in {"b", "B"} THEN 2
    ELSE 0

\* Number(string): the whole trimmed string must be a numeric literal; the
\* empty string is 0
\* the number a decimal literal found at the front of body writes; with
\* whole, the literal has to be all of body
LiteralNumber(s, body, lit, whole) ==
    IF lit.len > 0 /\ (~whole \/ lit.len = Len(body))
    THEN DecimalNumber(s, lit.digits, lit.exp10)
    ELSE NaN

\* the number an optional sign and a decimal literal or Infinity write
SignedNumber(s, body, whole) ==
    IF (IF whole THEN body = InfinityWord ELSE StartsWith(body, InfinityWord))
    THEN InfOf(s)
    ELSE LiteralNumber(s, body, DecimalLiteral(body), whole)

\* the number the digits after a 0x, 0o or 0b prefix write in the radix
RadixNumber(rest, radix) ==
    IF rest # <<>> /\ \A i \in DOMAIN rest : DigitValue(rest[i], radix) >= 0
    THEN Round(1, BigOfDigits(rest, radix), 0, FALSE)
    ELSE NaN

\* the number a string without white space around it writes
StringNumber(str) ==
    IF str = <<>> THEN Zero(1)
    ELSE IF PrefixRadix(str) # 0
    THEN RadixNumber(SubSeq(str, 3, Len(str)), PrefixRadix(str))
    ELSE IF Head(str) \in {"+", "-"}
    THEN SignedNumber(IF Head(str) = "-" THEN -1 ELSE 1, Tail(str), TRUE)
    ELSE SignedNumber(1, str, TRUE)

ToNumber(cell) == StringNumber(TrimEnd(TrimStart(cell)))

\* the number at the front of a string without leading white space
FloatPrefix(str) ==
    IF str # <<>> /\ Head(str) \in {"+", "-"}
    THEN SignedNumber(IF Head(str) = "-" THEN -1 ELSE 1, Tail(str), FALSE)
    ELSE SignedNumber(1, str, FALSE)

\* parseFloat(string): leading white space is skipped, the longest decimal
\* literal at the front is read and the rest ignored; NaN when there is none
ParseFloat(chars) == FloatPrefix(TrimStart(chars))

\* parseFloat(x.toFixed(1)): for a finite x below 10^21 in magnitude, toFixed
\* writes the integer n nearest 10 * |x| (the larger on a tie) with a point
\* before its last digit, after a minus sign when x < 0; larger numbers, NaN
\* and the infinities are written by ToString and read back unchanged
ToFixed1(x) ==
    IF ~IsFin(x) THEN x
    ELSE IF x.m = <<>> THEN Zero(1)
    ELSE IF x.e >= 0 /\ BigBitLength(x.m) + x.e >= 70
            /\ BigCmp(BigShl(x.m, x.e), BigPow10(21)) >= 0
    THEN x
    ELSE RoundRatio(x.s,
                    IF x.e >= 0 THEN BigShl(BigMulSmall(x.m, 10, 0), x.e)
                    ELSE BigShr(BigAdd(BigMulSmall(x.m, 10, 0), BigShl(<<1>>, -x.e - 1)),
                                -x.e),
                    <<10>>)

----------------------------------------------------------------------------
(* Sequence helpers standing for Array.prototype.reduce / filter. *)

RECURSIVE ReduceTo(_, _, _)
\* the accumulator after the first i elements
ReduceTo(terms, acc, i) ==
    IF i = 0 THEN acc ELSE JsAdd(ReduceTo(terms, acc, i - 1), terms[i])

\* terms.reduce((acc, x) => acc + x, acc), left to right; terms[i] is the
\* callback's addend for element i
Reduce(terms, acc) == ReduceTo(terms, acc, Len(terms))

RECURSIVE FilterLength(_)
\* array.filter(p).length; kept[i] is the callback's answer for element i
FilterLength(kept) ==
    IF kept = <<>> THEN 0
    ELSE (IF Head(kept) THEN 1 ELSE 0) + FilterLength(Tail(kept))

RECURSIVE SeqsUpTo(_, _)
\* all sequences over S of length at most n
SeqsUpTo(S, n) ==
    IF n = 0 THEN {<<>>}
    ELSE LET shorter == SeqsUpTo(S, n - 1)
         IN  shorter \cup {Append(q, x) : q \in shorter, x \in S}

----------------------------------------------------------------------------
(* Input domains of the fisheries decision engine. *)

AllYear == 1..12
Monsoon == {6, 7, 8}

\* species records: the fields of species.json the engine reads
Tuna ==
    [name |-> "Tuna", temp_range |-> <<200, 280>>, max_wave_height |-> 25,
     season_months |-> AllYear, legal_status |-> "Open", stock_health |-> 80]
Sardine ==
    [name |-> "Sardine", temp_range |-> <<200, 280>>, max_wave_height |-> 25,
     season_months |-> Monsoon, legal_status |-> "Restricted", stock_health |-> 49]
Grouper ==
    [name |-> "Grouper", temp_range |-> <<240, 300>>, max_wave_height |-> 15,
     season_months |-> Monsoon, legal_status |-> "Protected", stock_health |-> 30]
Mackerel ==
    [name |-> "Mackerel", temp_range |-> <<240, 300>>, max_wave_height |-> 35,
     season_months |-> AllYear, legal_status |-> "Open", stock_health |-> 100]
Shark ==
    [name |-> "Shark", temp_range |-> <<200, 280>>, max_wave_height |-> 15,
     season_months |-> AllYear, legal_status |-> "Protected", stock_health |-> 50]
Cod ==
    [name |-> "Cod", temp_range |-> <<240, 300>>, max_wave_height |-> 25,
     season_months |-> AllYear, legal_status |-> "Restricted", stock_health |-> 0]

SpeciesPool == {Tuna, Sardine, Grouper, Mackerel, Shark, Cod}

\* current conditions: the sea-surface temperature (tenths of a degree) and
\* the wave height (tenths of a metre)
Snapshot(temp, wave) == [sea_surface_temp |-> temp, wave_height |-> wave]
Conditions ==
    { Snapshot(250, 10), Snapshot(250, 30), Snapshot(195, 31), Snapshot(200, 10),
      Snapshot(280, 25), Snapshot(285, 31) }

\* a list of twelve species and the conditions it is scored under
StockedList ==
    <<Cod, Cod, Cod, Mackerel, Sardine, Sardine, Sardine, Sardine, Sardine,
      Tuna, Tuna, Tuna>>
StockedConditions == Snapshot(285, 31)

\* a Date: getMonth() counts the months from 0, getDate() is the day of the month
Date(month, date) == [month |-> month, date |-> date]
getMonth(d) == d.month
getDate(d) == d.date

\* dates the wall clock is observed at: one in January and two in June
Dates == {Date(0, 15), Date(5, 6), Date(5, 20)}

\* scores a caller may hand to generateFisheriesAlerts
ScoreArgs == {Num(59), Num(60)}

----------------------------------------------------------------------------
(* src/src/utils/fisheries.js *)

Reason(rule, a, b, c) == [rule |-> rule, a |-> a, b |-> b, c |-> c]

\* evaluateSuitability with the temperature rule moved in front of the legal rules
evaluateSuitability_TempFirst(species, data) ==
    LET temp_range == species.temp_range
        temp == data.sea_surface_temp
        wave == data.wave_height
    IN  IF temp < temp_range[1] \/ temp > temp_range[2]
        THEN [suitable |-> FALSE,
              reason |-> Reason("temp", temp, temp_range[1], temp_range[2])]
        ELSE IF species.legal_status = "Protected"
        THEN [suitable |-> FALSE, reason |-> Reason("protected", 0, 0, 0)]
        ELSE IF getMonth(clock) + 1 \notin species.season_months
        THEN [suitable |-> FALSE, reason |-> Reason("season", 0, 0, 0)]
        ELSE IF wave > species.max_wave_height
        THEN [suitable |-> FALSE,
              reason |-> Reason("wave", wave, species.max_wave_height, 0)]
        ELSE [suitable |-> TRUE, reason |-> Reason("optimal", 0, 0, 0)]

\* evaluateSuitability rejecting a wave exactly at the safety limit
evaluateSuitability_WaveAtLimit(species, data) ==
    LET temp_range == species.temp_range
        temp == data.sea_surface_temp
        wave == data.wave_height
    IN  IF species.legal_status = "Protected"
        THEN [suitable |-> FALSE, reason |-> Reason("protected", 0, 0, 0)]
        ELSE IF getMonth(clock) + 1 \notin species.season_months
        THEN [suitable |-> FALSE, reason |-> Reason("season", 0, 0, 0)]
        ELSE IF temp < temp_range[1] \/ temp > temp_range[2]
        THEN [suitable |-> FALSE,
              reason |-> Reason("temp", temp, temp_range[1], temp_range[2])]
        ELSE IF wave >= species.max_wave_height
        THEN [suitable |-> FALSE,
              reason |-> Reason("wave", wave, species.max_wave_height, 0)]
        ELSE [suitable |-> TRUE, reason |-> Reason("optimal", 0, 0, 0)]

\* evaluateSuitability taking the day of the month, new Date().getDate(), for
\* the month
evaluateSuitability_DayOfMonth(species, data) ==
    LET temp_range == species.temp_range
        temp == data.sea_surface_temp
        wave == data.wave_height
        currentMonth == getDate(clock)
    IN  IF species.legal_status = "Protected"
        THEN [suitable |-> FALSE, reason |-> Reason("protected", 0, 0, 0)]
        ELSE IF currentMonth \notin species.season_months
        THEN [suitable |-> FALSE, reason |-> Reason("season", 0, 0, 0)]
        ELSE IF temp < temp_range[1] \/ temp > temp_range[2]
        THEN [suitable |-> FALSE,
              reason |-> Reason("temp", temp, temp_range[1], temp_range[2])]
        ELSE IF wave > species.max_wave_height
        THEN [suitable |-> FALSE,
              reason |-> Reason("wave", wave, species.max_wave_height, 0)]
        ELSE [suitable |-> TRUE, reason |-> Reason("optimal", 0, 0, 0)]

\* evaluateSuitability(species, currentData); currentMonth is
\* new Date().getMonth() + 1, read from the clock at the time of the call
evaluateSuitability(species, data) ==
    LET temp_range == species.temp_range
        max_wave_height == species.max_wave_height
        season_months == species.season_months
        legal_status == species.legal_status
        temp == data.sea_surface_temp
        wave == data.wave_height
        currentMonth == getMonth(clock) + 1
    IN  IF legal_status = "Protected"
        THEN [suitable |-> FALSE, reason |-> Reason("protected", 0, 0, 0)]
        ELSE IF currentMonth \notin season_months
        THEN [suitable |-> FALSE, reason |-> Reason("season", 0, 0, 0)]
        ELSE IF temp < temp_range[1] \/ temp > temp_range[2]
        THEN [suitable |-> FALSE,
              reason |-> Reason("temp", temp, temp_range[1], temp_range[2])]
        ELSE IF wave > max_wave_height
        THEN [suitable |-> FALSE, reason |-> Reason("wave", wave, max_wave_height, 0)]
        ELSE [suitable |-> TRUE, reason |-> Reason("optimal", 0, 0, 0)]

\* the temperature filter leaving out a species at either end of its range
TempSuitable_Exclusive(s, data) ==
    LET temp == data.sea_surface_temp
    IN  temp > s.temp_range[1] /\ temp < s.temp_range[2]

\* the filter callbacks of calculateSustainabilityScore
TempSuitable(s, data) ==
    LET temp == data.sea_surface_temp
    IN  temp >= s.temp_range[1] /\ temp <= s.temp_range[2]

WaveSafe(s, data) == data.wave_height <= s.max_wave_height

\* calculateSustainabilityScore without the empty-list guard
calculateSustainabilityScore_NoGuard(list, data) ==
    LET n == Num(Len(list))
        avgStockHealth ==
            JsDiv(Reduce([i \in DOMAIN list |-> Num(list[i].stock_health)], Num(0)), n)
        suitableTempCount ==
            FilterLength([i \in DOMAIN list |-> TempSuitable(list[i], data)])
        tempScore == JsMul(JsDiv(Num(suitableTempCount), n), Num(100))
        safeWaveCount == FilterLength([i \in DOMAIN list |-> WaveSafe(list[i], data)])
        waveScore == JsMul(JsDiv(Num(safeWaveCount), n), Num(100))
        totalScore == JsAdd(JsAdd(JsMul(avgStockHealth, Fin(4, 10)),
                                  JsMul(tempScore, Fin(4, 10))),
                            JsMul(waveScore, Fin(2, 10)))
    IN  MathRound(totalScore)

\* calculateSustainabilityScore(speciesList, currentData)
calculateSustainabilityScore(list, data) ==
    IF Len(list) = 0 THEN Num(0)
    ELSE
    LET n == Num(Len(list))
        avgStockHealth ==
            JsDiv(Reduce([i \in DOMAIN list |-> Num(list[i].stock_health)], Num(0)), n)
        suitableTempCount ==
            FilterLength([i \in DOMAIN list |-> TempSuitable(list[i], data)])
        tempScore == JsMul(JsDiv(Num(suitableTempCount), n), Num(100))
        safeWaveCount == FilterLength([i \in DOMAIN list |-> WaveSafe(list[i], data)])
        waveScore == JsMul(JsDiv(Num(safeWaveCount), n), Num(100))
        totalScore == JsAdd(JsAdd(JsMul(avgStockHealth, Fin(4, 10)),
                                  JsMul(tempScore, Fin(4, 10))),
                            JsMul(waveScore, Fin(2, 10)))
    IN  MathRound(totalScore)

Alert(type, text, name, pct) == [type |-> type, text |-> text, name |-> name, pct |-> pct]

\* the forEach callback ranking the conservation notice before the stock warning
SpeciesAlerts_InfoFirst(s) ==
    (IF s.legal_status = "Protected"
     THEN <<Alert("info", "Conservation", s.name, 0)>>
     ELSE <<>>)
    \o
    (IF s.stock_health < 50
     THEN <<Alert("warning", "Biological Alert", s.name, s.stock_health)>>
     ELSE <<>>)

\* the alerts the forEach callback pushes for one species
SpeciesAlerts(s) ==
    (IF s.stock_health < 50
     THEN <<Alert("warning", "Biological Alert", s.name, s.stock_health)>>
     ELSE <<>>)
    \o
    (IF s.legal_status = "Protected"
     THEN <<Alert("info", "Conservation", s.name, 0)>>
     ELSE <<>>)

RECURSIVE ForEachSpecies(_, _)
\* speciesList.forEach(...) appending to alerts
ForEachSpecies(list, acc) ==
    IF list = <<>> THEN acc
    ELSE ForEachSpecies(Tail(list), acc \o SpeciesAlerts(Head(list)))

\* generateFisheriesAlerts(speciesList, sustainabilityScore, currentData)
generateFisheriesAlerts(list, score, data) ==
    LET a0 == <<>>
        a1 == IF data.wave_height > 30
              THEN Append(a0, Alert("danger", "Rough Sea Warning", "", 0))
              ELSE a0
        a2 == IF JsLt(score, Num(60))
              THEN Append(a1, Alert("warning", "Low Sustainability Index", "", 0))
              ELSE a1
    IN  ForEachSpecies(list, a2)

----------------------------------------------------------------------------
(* The engine as a state machine: a caller holding a species list and a   *)
(* conditions snapshot calls the three exported functions while the wall  *)
(* clock moves on.                                                        *)

\* a string value given by its characters, and the value undefined that a
\* missing query parameter reads as
String(chars) == [defined |-> TRUE, chars |-> chars]
Undefined == [defined |-> FALSE, chars |-> <<>>]

RiskIdle ==
    /\ rpc = "idle"
    /\ regionQuery = Undefined
    /\ sstFeed = [ok |-> FALSE, data |-> <<>>]
    /\ sst_avg = Num(0)
    /\ fileExists = FALSE
    /\ fileRows = <<>>
    /\ results = <<>>
    /\ emitted = <<>>
    /\ response = [status |-> 0]

\* an array of an upstream answer: the key may be missing from the object
Absent == [present |-> FALSE, items |-> <<>>]
Array(items) == [present |-> TRUE, items |-> items]

\* err.message of a rejected axios request: no connection, or no answer within
\* the timeout of 10000 ms
ErrorMessages == {"Network Error", "timeout of 10000ms exceeded"}

\* a request that was rejected with err.message (empty in an answer)
FailedMarine(message) ==
    [ok |-> FALSE, message |-> message, hourly |-> FALSE, wave_height |-> Absent,
     sea_surface_temperature |-> Absent]
FailedWeather(message) ==
    [ok |-> FALSE, message |-> message, hourly |-> FALSE, time |-> Absent,
     sea_surface_temperature |-> Absent, wind_speed_10m |-> Absent,
     surface_pressure |-> Absent]

\* res.status(502).json({ error: "Failed to fetch live data: " + err.message })
FetchFailed(message) ==
    [status |-> 502, body |-> [error |-> "Failed to fetch live data: " \o message]]

BuoyIdle ==
    /\ bpc = "idle"
    /\ bVariant = "serverless"
    /\ bLat = <<>>
    /\ bLon = <<>>
    /\ marineFeed = FailedMarine("Network Error")
    /\ weatherFeed = FailedWeather("Network Error")
    /\ bRequests = <<>>
    /\ bResponses = <<>>

HistIdle ==
    /\ hpc = "idle"
    /\ hVariant = "serverless"
    /\ hFileExists = FALSE
    /\ hFile = <<>>
    /\ hPos = 0
    /\ hResults = <<>>
    /\ hResponses = <<>>

\* the statistics of a series without a valid value
ZeroStats ==
    [mean |-> Num(0), variance |-> Num(0), min |-> Num(0), max |-> Num(0),
     anomalyCount |-> 0, moderateCount |-> 0, extremeCount |-> 0]

ChartIdle ==
    /\ observations = <<>>
    /\ paramKey = "WTMP"
    /\ windowSize = 1
    /\ cfn = "none"
    /\ statsOut = ZeroStats
    /\ maCalls = 0
    /\ maOut = <<>>
    /\ maPrev = <<>>

\* the App component as mounted, in live mode with nothing loaded
AppIdle ==
    /\ activeParams = <<"sea_surface_temp", "wind_speed", "air_pressure">>
    /\ viewMode = "live"
    /\ selectedYear = 2023
    /\ maxRenderRows = 5000
    /\ archive = <<>>
    /\ histAllData = <<>>
    /\ hasLoaded = FALSE
    /\ histLoading = FALSE
    /\ filteredHistorical = <<>>

Init ==
    /\ clock \in Dates
    /\ ticks = 0
    /\ \/ speciesList \in SeqsUpTo(SpeciesPool, MaxSpecies) /\ currentData \in Conditions
       \/ speciesList = StockedList /\ currentData = StockedConditions
    /\ fn = "none"
    /\ evalDates = <<>>
    /\ evaluationResults = <<>>
    /\ sustainabilityScore = Num(0)
    /\ scoreArg = Num(0)
    /\ alerts = <<>>
    /\ RiskIdle
    /\ BuoyIdle
    /\ HistIdle
    /\ ChartIdle
    /\ AppIdle

\* calculateSustainabilityScore(list, data) for every list and conditions
\* the engine is started with, each evaluated once
ScoreTable ==
    [list \in SeqsUpTo(SpeciesPool, MaxSpecies) \cup {StockedList},
     data \in Conditions \cup {StockedConditions} |->
       calculateSustainabilityScore(list, data)]

\* time passes: the wall clock shows another date
Tick ==
    /\ ticks < MaxTicks
    /\ ticks' = ticks + 1
    /\ \E d \in Dates \ {clock} : clock' = d
    /\ UNCHANGED <<speciesList, currentData, fn, evalDates, evaluationResults,
                   sustainabilityScore, scoreArg, alerts>>
    /\ UNCHANGED riskVars
    /\ UNCHANGED otherVars

\* the map over the species list is running: some callback has not run yet
Mapping == fn = "map"

\* speciesData.map(s => ...) is entered; over an empty list it returns at once
CallMap ==
    /\ ~Mapping
    /\ fn' = IF speciesList = <<>> THEN "evaluateSuitability" ELSE "map"
    /\ evaluationResults' = <<>>
    /\ evalDates' = <<>>
    /\ sustainabilityScore' = Num(0)
    /\ scoreArg' = Num(0)
    /\ alerts' = <<>>
    /\ UNCHANGED <<clock, ticks, speciesList, currentData>>
    /\ UNCHANGED riskVars
    /\ UNCHANGED otherVars

\* the callback of the map runs for the next species:
\* evaluateSuitability(s, currentData), which reads the clock as it is then;
\* after the last species the map returns
CallEvaluate ==
    /\ Mapping
    /\ LET i == Len(evaluationResults) + 1
       IN  /\ evaluationResults' =
                Append(evaluationResults, evaluateSuitability(speciesList[i], currentData))
           /\ evalDates' = Append(evalDates, clock)
           /\ fn' = IF i = Len(speciesList) THEN "evaluateSuitability" ELSE "map"
    /\ UNCHANGED <<clock, ticks, speciesList, currentData, sustainabilityScore, scoreArg,
                   alerts>>
    /\ UNCHANGED riskVars
    /\ UNCHANGED otherVars

\* calculateSustainabilityScore(speciesData, currentData)
CallScore ==
    /\ ~Mapping
    /\ fn' = "calculateSustainabilityScore"
    /\ sustainabilityScore' = ScoreTable[speciesList, currentData]
    /\ evaluationResults' = <<>>
    /\ evalDates' = <<>>
    /\ scoreArg' = Num(0)
    /\ alerts' = <<>>
    /\ UNCHANGED <<clock, ticks, speciesList, currentData>>
    /\ UNCHANGED riskVars
    /\ UNCHANGED otherVars

\* generateFisheriesAlerts(speciesData, score, currentData), the score being
\* the one calculateSustainabilityScore has just returned or any the caller
\* supplies
CallAlerts ==
    /\ ~Mapping
    /\ \E sc \in ScoreArgs \cup {sustainabilityScore} :
         /\ scoreArg' = sc
         /\ alerts' = generateFisheriesAlerts(speciesList, sc, currentData)
    /\ fn' = "generateFisheriesAlerts"
    /\ evaluationResults' = <<>>
    /\ evalDates' = <<>>
    /\ sustainabilityScore' = Num(0)
    /\ UNCHANGED <<clock, ticks, speciesList, currentData>>
    /\ UNCHANGED riskVars
    /\ UNCHANGED otherVars

Next == Tick \/ CallMap \/ CallEvaluate \/ CallScore \/ CallAlerts

Spec == Init /\ [][Next]_vars

----------------------------------------------------------------------------
(* Input domains of the risk framework. *)

IndianOcean == <<"I", "n", "d", "i", "a", "n", " ", "O", "c", "e", "a", "n">>
Pacific == <<"P", "a", "c", "i", "f", "i", "c">>
PACIFIC == <<"P", "A", "C", "I", "F", "I", "C">>
AllRegions == <<"A", "l", "l", " ", "R", "e", "g", "i", "o", "n", "s">>

\* req.query.region as sent by the client: no parameter, a region name in
\* some case, the empty string, or the word "undefined"
RegionParams ==
    { Undefined, String(IndianOcean), String(PACIFIC), String(<<>>),
      String(<<"u", "n", "d", "e", "f", "i", "n", "e", "d">>) }

\* req.query.region?.toLowerCase()
LowerCased(param) ==
    IF param.defined THEN String(ToLowerCase(param.chars)) ELSE Undefined

\* !value of a string or undefined
Falsy(value) == ~value.defined \/ value.chars = <<>>

CsvRow(id, region, species, stock, trend, msy, catch, prot) ==
    [id |-> id, region |-> region, species |-> species, stock_health_percent |-> stock,
     trend |-> trend, msy_tonnes |-> msy, current_catch_tonnes |-> catch,
     protected |-> prot]

\* rows of fisheries_indian_region_2023.csv as csv-parser hands them over:
\* every cell is a string
RowPool ==
    { CsvRow(<<"1">>, IndianOcean, "Tuna", <<VerticalTab, "8", "0">>, "Stable",
             <<"1", "0", "0">>, <<"1", "0", "0">>, "false"),
      CsvRow(<<"2">>, PACIFIC, "Cod", <<"0">>, "Critical",
             <<"1", "e", "2">>, <<"1", "1", "0", ".", "0">>, "true"),
      CsvRow(<<"3">>, IndianOcean, "Hilsa", <<"3", "5">>, "Declining",
             <<"0">>, <<"5", "0">>, "false"),
      CsvRow(<<"4">>, IndianOcean, "Shark", <<"6", "0">>, "Improving",
             <<>>, <<"-", "0">>, "true"),
      CsvRow(<<"5">>, Pacific, "Sardine", <<"4", "5">>, "Declining",
             <<" ", "2", "0", "0">>, <<"1", "5", "0">>, "false") }

\* the request to the upstream marine API fails
FailedFeed == [ok |-> FALSE, data |-> <<>>]

\* answers of the upstream marine API: a failed request, or the hourly
\* sea_surface_temperature array (null where a reading is missing)
SstFeeds ==
    { FailedFeed,
      [ok |-> TRUE, data |-> <<>>],
      [ok |-> TRUE, data |-> <<JsonNull, Num(26)>>],
      [ok |-> TRUE, data |-> <<Num(27)>>],
      [ok |-> TRUE, data |-> <<Fin(255, 10), Fin(305, 10)>>],
      [ok |-> TRUE, data |-> <<Num(30), JsonNull>>],
      [ok |-> TRUE, data |-> <<Fin(235, 10)>>],
      [ok |-> TRUE, data |-> <<Num(28), Fin(285, 10)>>],
      [ok |-> TRUE, data |-> <<Num(28), Fin(265, 10), Fin(248, 10), Fin(266, 10),
                               Fin(258, 10), Fin(258, 10), Fin(245, 10)>>] }

\* the requests served: for all regions or the Indian Ocean against every
\* answer of the upstream API, and for each region parameter while the
\* upstream API is down
Requests ==
    {[region |-> q, feed |-> f] : q \in {Undefined, String(IndianOcean)}, f \in SstFeeds}
      \cup {[region |-> q, feed |-> FailedFeed] : q \in RegionParams}

----------------------------------------------------------------------------
(* src/api/buoy-historical.js, app.get("/api/fisheries") *)

RECURSIVE SelectSeq2(_, _)
\* array.filter(...) keeping the elements whose flag is set
SelectSeq2(seq, keep) ==
    IF seq = <<>> THEN <<>>
    ELSE (IF Head(keep) THEN <<Head(seq)>> ELSE <<>>) \o SelectSeq2(Tail(seq), Tail(keep))

\* the try block fetching the live SST: the new climateStressData.sst_avg
FetchedSstAvg(feed, region, before) ==
    LET sstData == feed.data
        validSst == SelectSeq2(sstData, [i \in DOMAIN sstData |-> sstData[i] # JsonNull])
        avg == IF Len(validSst) > 0
               THEN JsDiv(Reduce(validSst, Num(0)), Num(Len(validSst)))
               ELSE before
    IN  IF region = String(ToLowerCase(IndianOcean)) THEN JsAdd(avg, Fin(25, 10)) ELSE avg

\* the record the 'data' handler builds from a CSV row
RecordOf(row) ==
    [id |-> ToNumber(row.id),
     region |-> row.region,
     species |-> row.species,
     stock_health_percent |-> ToNumber(row.stock_health_percent),
     trend |-> row.trend,
     msy_tonnes |-> ToNumber(row.msy_tonnes),
     current_catch_tonnes |-> ToNumber(row.current_catch_tonnes),
     protected |-> (row.protected = "true")]

\* the region compared without lowering the record's case
RegionMatches_CaseSensitive(record, region) ==
    Falsy(region) \/ record.region = region.chars

\* !regionQuery || record.region.toLowerCase() === regionQuery
RegionMatches(record, region) ==
    Falsy(region) \/ ToLowerCase(record.region) = region.chars

\* the step function with the breakpoints taken inclusively
ClimateScore_Inclusive(sst) ==
    IF JsGe(sst, Num(30)) THEN 90
    ELSE IF JsGe(sst, Num(28)) THEN 60
    ELSE IF JsGe(sst, Num(26)) THEN 40
    ELSE 20

\* the climate-stress step function of sst
ClimateScore(sst) ==
    IF JsGt(sst, Num(30)) THEN 90
    ELSE IF JsGt(sst, Num(28)) THEN 60
    ELSE IF JsGt(sst, Num(26)) THEN 40
    ELSE 20

\* Math.max(0, Math.min(100, Math.round(x)))
ClampRound(x) == MathMax(Num(0), MathMin(Num(100), MathRound(x)))

\* (current_catch_tonnes / msy_tonnes) * 100
Utilization(s) == JsMul(JsDiv(s.current_catch_tonnes, s.msy_tonnes), Num(100))

IsDeclining(s) == s.trend = "Declining" \/ s.trend = "Critical"

\* the levels with the index 50 counted as 'Critical'
SustainabilityLevel_CriticalAt50(finalIndex) ==
    IF JsGe(finalIndex, Num(70)) THEN "Sustainable"
    ELSE IF JsLe(finalIndex, Num(50)) THEN "Critical"
    ELSE "Caution"

\* finalIndex >= 70 ? 'Sustainable' : finalIndex < 50 ? 'Critical' : 'Caution'
SustainabilityLevel(finalIndex) ==
    IF JsGe(finalIndex, Num(70)) THEN "Sustainable"
    ELSE IF JsLt(finalIndex, Num(50)) THEN "Critical"
    ELSE "Caution"

\* finalCollapseRisk < 30 ? 'Low' : finalCollapseRisk > 60 ? 'High' : 'Moderate'
RiskLevel(finalCollapseRisk) ==
    IF JsLt(finalCollapseRisk, Num(30)) THEN "Low"
    ELSE IF JsGt(finalCollapseRisk, Num(60)) THEN "High"
    ELSE "Moderate"

\* a record of results as JSON carries it
JsonRecord(r) ==
    [r EXCEPT !.id = JsonNumber(@),
              !.stock_health_percent = JsonNumber(@),
              !.msy_tonnes = JsonNumber(@),
              !.current_catch_tonnes = JsonNumber(@)]

\* the projection taken as growing with the collapse risk
ProjectedIndex_Growth(finalIndex, finalCollapseRisk) ==
    JsAdd(finalIndex, JsMul(finalCollapseRisk, Fin(5, 100)))

\* finalIndex - (finalCollapseRisk * 0.05)
ProjectedIndex(finalIndex, finalCollapseRisk) ==
    JsSub(finalIndex, JsMul(finalCollapseRisk, Fin(5, 100)))

\* Math.max(0, Math.round(projectedIndex))
Index6Month(projectedIndex) == MathMax(Num(0), MathRound(projectedIndex))

\* avgStockHealth, avgMSY and decliningPercent of a non-empty results
Averages(recs) ==
    [avgStockHealth |->
       JsDiv(Reduce([i \in DOMAIN recs |-> recs[i].stock_health_percent], Num(0)),
             Num(Len(recs))),
     avgMSY |->
       JsDiv(Reduce([i \in DOMAIN recs |-> Utilization(recs[i])], Num(0)), Num(Len(recs))),
     decliningPercent |->
       JsMul(JsDiv(Num(FilterLength([i \in DOMAIN recs |-> IsDeclining(recs[i])])),
                   Num(Len(recs))),
             Num(100))]

\* (avgStockHealth * 0.5) + ((100 - msyPressureScore) * 0.25)
\*   + ((100 - decliningPercent) * 0.15) + ((100 - climateScore) * 0.10)
SustainabilityIndex(avgStockHealth, msyPressureScore, decliningPercent, climateScore) ==
    JsAdd(JsAdd(JsAdd(JsMul(avgStockHealth, Fin(50, 100)),
                      JsMul(JsSub(Num(100), msyPressureScore), Fin(25, 100))),
                JsMul(JsSub(Num(100), decliningPercent), Fin(15, 100))),
          JsMul(JsSub(Num(100), climateScore), Fin(10, 100)))

\* the collapse risk growing with the average stock health
CollapseRisk_HealthRaisesRisk(avgStockHealth, msyPressureScore, decliningPercent, climateScore) ==
    JsAdd(JsAdd(JsAdd(JsMul(msyPressureScore, Fin(35, 100)),
                      JsMul(decliningPercent, Fin(25, 100))),
                JsMul(avgStockHealth, Fin(25, 100))),
          JsMul(climateScore, Fin(15, 100)))

\* (msyPressureScore * 0.35) + (decliningPercent * 0.25)
\*   + ((100 - avgStockHealth) * 0.25) + (climateScore * 0.15)
CollapseRisk(avgStockHealth, msyPressureScore, decliningPercent, climateScore) ==
    JsAdd(JsAdd(JsAdd(JsMul(msyPressureScore, Fin(35, 100)),
                      JsMul(decliningPercent, Fin(25, 100))),
                JsMul(JsSub(Num(100), avgStockHealth), Fin(25, 100))),
          JsMul(climateScore, Fin(15, 100)))

\* the averages with the two final scores and the projection from them
FinalScores(avg, climateScore, finalIndex, finalCollapseRisk) ==
    [avgStockHealth |-> avg.avgStockHealth,
     avgMSY |-> avg.avgMSY,
     decliningPercent |-> avg.decliningPercent,
     climateScore |-> climateScore,
     finalIndex |-> finalIndex,
     finalCollapseRisk |-> finalCollapseRisk,
     projectedIndex |-> ProjectedIndex(finalIndex, finalCollapseRisk)]

\* the two weighted sums, each rounded and clamped
WeightedScores(avg, msyPressureScore, climateScore) ==
    FinalScores(avg, climateScore,
                ClampRound(SustainabilityIndex(avg.avgStockHealth, msyPressureScore,
                                               avg.decliningPercent, climateScore)),
                ClampRound(CollapseRisk(avg.avgStockHealth, msyPressureScore,
                                        avg.decliningPercent, climateScore)))

\* the scores from the averages: msyPressureScore = Math.min(avgMSY, 120)
ScoresOf(avg, climateScore) ==
    WeightedScores(avg, MathMin(avg.avgMSY, Num(120)), climateScore)

\* the values the 'end' handler computes from a non-empty results and the sst
Scores(recs, sst) == ScoresOf(Averages(recs), Num(ClimateScore(sst)))

\* the body res.json sends for a non-empty results with the values v
Bundle(recs, sst, region, v) ==
        [region |-> IF Falsy(region) THEN AllRegions ELSE region.chars,
         sustainability_index |-> JsonNumber(v.finalIndex),
         sustainability_level |-> SustainabilityLevel(v.finalIndex),
         collapse_risk |-> [score |-> JsonNumber(v.finalCollapseRisk),
                            level |-> RiskLevel(v.finalCollapseRisk)],
         climate_stress |-> [sst |-> JsonNumber(ToFixed1(sst)),
                             score |-> JsonNumber(v.climateScore)],
         projection |->
           [index_6_month |-> JsonNumber(Index6Month(v.projectedIndex)),
            change |-> JsonNumber(MathRound(JsSub(v.projectedIndex, v.finalIndex)))],
         stats |->
           [count |-> Len(recs),
            avg_stock_health |-> JsonNumber(MathRound(v.avgStockHealth)),
            msy_utilization |-> JsonNumber(MathRound(v.avgMSY)),
            declining_percent |-> JsonNumber(MathRound(v.decliningPercent)),
            critical_species_count |->
              FilterLength([i \in DOMAIN recs |->
                              JsLt(recs[i].stock_health_percent, Num(40))])],
         data |-> [i \in DOMAIN recs |-> JsonRecord(recs[i])]]

\* the body res.json sends from the 'end' handler
EndBody(recs, sst, region) ==
    IF Len(recs) = 0 THEN [count |-> 0] ELSE Bundle(recs, sst, region, Scores(recs, sst))

----------------------------------------------------------------------------
(* One request to GET /api/fisheries. *)

FishIdle ==
    /\ clock = Date(0, 15)
    /\ ticks = 0
    /\ speciesList = <<>>
    /\ currentData = [sea_surface_temp |-> 250, wave_height |-> 10]
    /\ fn = "none"
    /\ evalDates = <<>>
    /\ evaluationResults = <<>>
    /\ sustainabilityScore = Num(0)
    /\ scoreArg = Num(0)
    /\ alerts = <<>>

RiskInit ==
    /\ rpc = "fetch"
    /\ \E req \in Requests :
         /\ regionQuery = LowerCased(req.region)
         /\ sstFeed = req.feed
    /\ sst_avg = Fin(285, 10)
    /\ fileExists \in BOOLEAN
    /\ fileRows \in SeqsUpTo(RowPool, MaxRows)
    /\ fileExists = FALSE => fileRows = <<>>
    /\ results = <<>>
    /\ emitted = <<>>
    /\ response = [status |-> 0]
    /\ FishIdle
    /\ BuoyIdle
    /\ HistIdle
    /\ ChartIdle
    /\ AppIdle

\* await axios.get(...) settles: the try block runs to its end or the catch logs
FetchSst ==
    /\ rpc = "fetch"
    /\ sst_avg' = IF sstFeed.ok THEN FetchedSstAvg(sstFeed, regionQuery, sst_avg)
                  ELSE sst_avg
    /\ rpc' = "exists"
    /\ UNCHANGED <<regionQuery, sstFeed, fileExists, fileRows, results, emitted, response>>
    /\ UNCHANGED fishVars
    /\ UNCHANGED otherVars

\* if (!fs.existsSync(filePath)) return 404; otherwise the stream is opened
CheckFile ==
    /\ rpc = "exists"
    /\ IF fileExists
       THEN rpc' = "stream" /\ UNCHANGED response
       ELSE /\ rpc' = "done"
            /\ response' = [status |-> 404, body |-> [error |-> "Data file not found"]]
    /\ UNCHANGED <<regionQuery, sstFeed, sst_avg, fileExists, fileRows, results, emitted>>
    /\ UNCHANGED fishVars
    /\ UNCHANGED otherVars

\* if (!regionQuery || record.region.toLowerCase() === regionQuery)
\*   results.push(record)
Pushed(list, record, region) ==
    IF RegionMatches(record, region) THEN Append(list, record) ELSE list

\* .on("data", row => ...)
OnData ==
    /\ rpc = "stream"
    /\ fileRows # <<>>
    /\ results' = Pushed(results, RecordOf(Head(fileRows)), regionQuery)
    /\ fileRows' = Tail(fileRows)
    /\ emitted' = Append(emitted, Head(fileRows))
    /\ UNCHANGED <<rpc, regionQuery, sstFeed, sst_avg, fileExists, response>>
    /\ UNCHANGED fishVars
    /\ UNCHANGED otherVars

\* .on("end", () => ...)
OnEnd ==
    /\ rpc = "stream"
    /\ fileRows = <<>>
    /\ response' = [status |-> 200, body |-> EndBody(results, sst_avg, regionQuery)]
    /\ rpc' = "done"
    /\ UNCHANGED <<regionQuery, sstFeed, sst_avg, fileExists, fileRows, results, emitted>>
    /\ UNCHANGED fishVars
    /\ UNCHANGED otherVars

\* the awaited axios.get(...) never settles: the call sets no timeout, so the
\* handler stays suspended at the await
SstPending ==
    /\ rpc = "fetch"
    /\ rpc' = "pending"
    /\ UNCHANGED <<regionQuery, sstFeed, sst_avg, fileExists, fileRows, results, emitted,
                   response>>
    /\ UNCHANGED fishVars
    /\ UNCHANGED otherVars

\* the read stream or the parser emits 'error': the handler registered 'data'
\* and 'end' listeners only, and neither runs again
OnError ==
    /\ rpc = "stream"
    /\ rpc' = "error"
    /\ UNCHANGED <<regionQuery, sstFeed, sst_avg, fileExists, fileRows, results, emitted,
                   response>>
    /\ UNCHANGED fishVars
    /\ UNCHANGED otherVars

RiskNext == FetchSst \/ SstPending \/ CheckFile \/ OnData \/ OnEnd \/ OnError

SpecRisk == RiskInit /\ [][RiskNext]_vars

----------------------------------------------------------------------------
(* Properties of the fisheries decision engine. *)

Evaluated == fn = "evaluateSuitability"
Scored == fn = "calculateSustainabilityScore"
Alerted == fn = "generateFisheriesAlerts"

\* the calendar month, 1 to 12, of each evaluateSuitability call of the map
evalMonths == [i \in DOMAIN evalDates |-> getMonth(evalDates[i]) + 1]

OutOfSeason(s, m) == m \notin s.season_months
TempOutside(s, data) ==
    data.sea_surface_temp < s.temp_range[1] \/ data.sea_surface_temp > s.temp_range[2]
WaveAbove(s, data) == data.wave_height > s.max_wave_height

\* C1: the rules are applied in the order Protected, season, temperature, wave and
\* only the first failing rule is reported: a Protected species always gets the
\* protection reason, a non-protected species out of season always the season
\* reason, and a temperature failure is reported in preference to a wave failure.
C1_RulePrecedence ==
    Evaluated =>
      \A i \in DOMAIN speciesList :
        LET s == speciesList[i]
            r == evaluationResults[i]
        IN  /\ s.legal_status = "Protected" =>
                 r = [suitable |-> FALSE, reason |-> Reason("protected", 0, 0, 0)]
            /\ (s.legal_status # "Protected" /\ OutOfSeason(s, evalMonths[i])) =>
                 r = [suitable |-> FALSE, reason |-> Reason("season", 0, 0, 0)]
            /\ (s.legal_status # "Protected" /\ ~OutOfSeason(s, evalMonths[i])
                  /\ TempOutside(s, currentData)) =>
                 (~r.suitable /\ r.reason.rule = "temp")
            /\ r.reason.rule = "wave" =>
                 (s.legal_status # "Protected" /\ ~OutOfSeason(s, evalMonths[i])
                    /\ ~TempOutside(s, currentData))

\* a Protected species that also fails the season, temperature and wave rules was
\* evaluated, next to a non-protected one failing both temperature and wave
C1_Witness ==
    /\ Evaluated
    /\ \E i \in DOMAIN speciesList :
         /\ speciesList[i].legal_status = "Protected"
         /\ OutOfSeason(speciesList[i], evalMonths[i])
         /\ TempOutside(speciesList[i], currentData)
         /\ WaveAbove(speciesList[i], currentData)
         /\ evaluationResults[i].reason.rule = "protected"
    /\ \E i \in DOMAIN speciesList :
         /\ TempOutside(speciesList[i], currentData)
         /\ WaveAbove(speciesList[i], currentData)
         /\ evaluationResults[i].reason.rule = "temp"

\* C2: suitable is true exactly when the species is not Protected, the month is in
\* season, low <= temp <= high and wave <= max_wave_height (both inclusive); the
\* wave reason carries the wave height and the limit; the species [20,28] / 2.5 /
\* all months / Open is suitable at 25 degrees and 1.0 m, unsuitable for the wave
\* at 3.0 m.
C2_SuitableIff ==
    Evaluated =>
      \A i \in DOMAIN speciesList :
        LET s == speciesList[i]
            r == evaluationResults[i]
            temp == currentData.sea_surface_temp
            wave == currentData.wave_height
        IN  /\ r.suitable <=>
                 /\ s.legal_status # "Protected"
                 /\ evalMonths[i] \in s.season_months
                 /\ s.temp_range[1] <= temp
                 /\ temp <= s.temp_range[2]
                 /\ wave <= s.max_wave_height
            /\ r.suitable <=> r.reason.rule = "optimal"
            /\ r.reason.rule = "temp" =>
                 r.reason = Reason("temp", temp, s.temp_range[1], s.temp_range[2])
            /\ r.reason.rule = "wave" =>
                 r.reason = Reason("wave", wave, s.max_wave_height, 0)
            /\ (s = Tuna /\ temp = 250 /\ wave = 10) => r.suitable
            /\ (s = Tuna /\ temp = 250 /\ wave = 30) =>
                 r = [suitable |-> FALSE, reason |-> Reason("wave", 30, 25, 0)]

\* a species is found suitable with the wave exactly at its limit and the
\* temperature exactly at its upper bound
C2_Witness ==
    /\ Evaluated
    /\ \E i \in DOMAIN speciesList :
         /\ currentData.wave_height = speciesList[i].max_wave_height
         /\ currentData.sea_surface_temp = speciesList[i].temp_range[2]
         /\ evaluationResults[i].suitable

\* the evaluateSuitability calls the map has made: the species, the date and
\* the calendar month the call was made at and the result
Calls ==
    {[species |-> speciesList[i], date |-> evalDates[i], month |-> evalMonths[i],
      result |-> evaluationResults[i]] :
       i \in DOMAIN evaluationResults}

\* C3 as claimed: two calls of evaluateSuitability with the same species and the
\* same conditions return the same result whenever each of them is made.
C3_SameResultWheneverCalled ==
    \A a, b \in Calls : a.species = b.species => a.result = b.result

\* C3 as amended: two calls of evaluateSuitability with the same species and the
\* same conditions made in the same calendar month return the same result, on
\* whatever dates of that month they are made: of the wall clock only the month
\* enters the result.
C3_SameResultInSameMonth ==
    \A a, b \in Calls :
      (a.species = b.species /\ a.month = b.month) => a.result = b.result

\* a seasonal species was evaluated twice on different dates of one month of
\* its season and found suitable both times
C3_Witness ==
    /\ Evaluated
    /\ \E i, j \in DOMAIN speciesList :
         /\ i < j
         /\ speciesList[i] = speciesList[j]
         /\ evalMonths[i] = evalMonths[j]
         /\ evalDates[i] # evalDates[j]
         /\ speciesList[i].legal_status # "Protected"
         /\ speciesList[i].season_months # AllYear
         /\ evaluationResults[i].suitable
         /\ evaluationResults[j].suitable

RECURSIVE StockSum(_)
StockSum(list) == IF list = <<>> THEN 0 ELSE Head(list).stock_health + StockSum(Tail(list))

\* C4: the score of an empty list is 0, and the score of a non-empty list whose
\* stock_health values lie in [0,100] is an integer in [0,100].
C4_ScoreRange ==
    Scored =>
      /\ Len(speciesList) = 0 => sustainabilityScore = Num(0)
      /\ (Len(speciesList) > 0
            /\ \A i \in DOMAIN speciesList : speciesList[i].stock_health \in 0..100) =>
           IsIntegerIn(sustainabilityScore, 0, 100)

\* the score of an empty species list was computed
C4_Witness ==
    /\ Scored
    /\ speciesList = <<>>
    /\ sustainabilityScore = Num(0)

\* round half up of num / den, den > 0
RoundHalfUp(num, den) == (2 * num + den) \div (2 * den)

\* the species list with every legal status and season replaced
Deregulated(list) ==
    [i \in DOMAIN list |->
       [list[i] EXCEPT !.legal_status = "Open", !.season_months = AllYear]]

\* C5: for a non-empty list the score is round(0.4 * avgStockHealth + 0.4 * tempScore
\* + 0.2 * waveScore), round half up, tempScore and waveScore being the percentages
\* of species with low <= temp <= high and with max_wave_height >= wave; legal
\* status and season do not affect it.
C5_ScoreFormula ==
    (Scored /\ Len(speciesList) > 0) =>
      LET n == Len(speciesList)
          S == StockSum(speciesList)
          t == Cardinality({i \in 1..n :
                 /\ speciesList[i].temp_range[1] <= currentData.sea_surface_temp
                 /\ currentData.sea_surface_temp <= speciesList[i].temp_range[2]})
          w == Cardinality({i \in 1..n :
                 speciesList[i].max_wave_height >= currentData.wave_height})
      IN  /\ sustainabilityScore = Num(RoundHalfUp(40 * S + 4000 * t + 2000 * w, 100 * n))
          /\ sustainabilityScore =
               calculateSustainabilityScore(Deregulated(speciesList), currentData)

Ind(b) == IF b THEN 1 ELSE 0

\* number of alerts species 1..i of the list contribute
RECURSIVE AlertsUpTo(_, _)
AlertsUpTo(list, i) ==
    IF i = 0 THEN 0
    ELSE AlertsUpTo(list, i - 1) + Ind(list[i].stock_health < 50)
           + Ind(list[i].legal_status = "Protected")

\* C6: the alerts are, in this order and with nothing suppressed, merged or
\* reordered: a danger alert iff wave_height > 3, a warning iff the score < 60, then
\* per species in list order a warning iff stock_health < 50 followed by an info
\* alert iff it is Protected; their number is the sum of the four counts.
C6_AlertSequence ==
    Alerted =>
      LET n == Len(speciesList)
          rough == currentData.wave_height > 30
          low == IsSmallInteger(scoreArg) /\ IntegerValue(scoreArg) < 60
          pre == Ind(rough) + Ind(low)
      IN  /\ Len(alerts) = pre + AlertsUpTo(speciesList, n)
          /\ rough => alerts[1] = Alert("danger", "Rough Sea Warning", "", 0)
          /\ low => alerts[pre] = Alert("warning", "Low Sustainability Index", "", 0)
          /\ \A i \in 1..n :
               LET s == speciesList[i]
                   at == pre + AlertsUpTo(speciesList, i - 1)
                   weak == s.stock_health < 50
               IN  /\ weak => alerts[at + 1] =
                        Alert("warning", "Biological Alert", s.name, s.stock_health)
                   /\ s.legal_status = "Protected" =>
                        alerts[at + Ind(weak) + 1] = Alert("info", "Conservation", s.name, 0)

\* all four rules fired, one species raised both of its alerts, and an info alert
\* stands in front of a later species' warning
C6_Witness ==
    /\ Alerted
    /\ currentData.wave_height > 30
    /\ scoreArg = Num(59)
    /\ \E i \in DOMAIN speciesList :
         speciesList[i].stock_health < 50 /\ speciesList[i].legal_status = "Protected"
    /\ \E a, b \in DOMAIN alerts :
         a < b /\ alerts[a].type = "info" /\ alerts[b].type = "warning"

----------------------------------------------------------------------------
(* Properties of the risk framework. *)

\* the request was answered with the full score bundle
FullBundle == rpc = "done" /\ response.status = 200 /\ Len(results) > 0

\* msy_tonnes of a kept record is 0 or not a number
InvalidMsy(r) == ~IsFin(r.msy_tonnes) \/ JsLe(r.msy_tonnes, Num(0))

\* C7: whenever msy_tonnes is 0 or otherwise invalid for a record of the filtered
\* list, sustainability_index, collapse_risk.score, the projection fields and
\* stats.msy_utilization of the response are all finite numbers.
C7_NoDivisionByZeroInResponse ==
    (FullBundle /\ \E i \in DOMAIN results : InvalidMsy(results[i])) =>
      /\ IsFiniteNumber(response.body.sustainability_index)
      /\ IsFiniteNumber(response.body.collapse_risk.score)
      /\ IsFiniteNumber(response.body.projection.index_6_month)
      /\ IsFiniteNumber(response.body.projection.change)
      /\ IsFiniteNumber(response.body.stats.msy_utilization)

\* C8: for every non-empty filtered list and every sst, sustainability_index and
\* collapse_risk.score are integers within [0,100].
C8_ScoresWithin0To100 ==
    FullBundle =>
      /\ IsIntegerIn(response.body.sustainability_index, 0, 100)
      /\ IsIntegerIn(response.body.collapse_risk.score, 0, 100)

\* sst <= k and sst > k for a finite sst and an integer k
AtMost(sst, k) == JsLe(sst, Num(k))
Above(sst, k) == JsGt(sst, Num(k))

\* the bands (-inf,26] -> 20, (26,28] -> 40, (28,30] -> 60, (30,inf) -> 90
BandScore(sst) ==
    CASE AtMost(sst, 26) -> 20
      [] Above(sst, 26) /\ AtMost(sst, 28) -> 40
      [] Above(sst, 28) /\ AtMost(sst, 30) -> 60
      [] Above(sst, 30) -> 90

\* sea-surface temperatures around the breakpoints, in tenths of a degree
SstProbes == {Fin(t, 10) : t \in {250, 259, 260, 261, 279, 280, 281, 299, 300, 301, 320}}

\* the climate score of every probe
ProbeScores == [t \in SstProbes |-> ClimateScore(t)]

\* the climate score of every probe is the score of its band
ProbesInBands == \A t \in SstProbes : ProbeScores[t] = BandScore(t)

\* C9: the climate-stress score is the step function of sst with the bands
\* (-inf,26] -> 20, (26,28] -> 40, (28,30] -> 60, (30,inf) -> 90; it is always one
\* of 20, 40, 60, 90 and never decreases when sst grows.
C9_ClimateBands ==
    /\ ProbesInBands
    /\ FullBundle =>
         LET score == response.body.climate_stress.score
         IN  /\ score = Num(BandScore(sst_avg))
             /\ IntegerValue(score) \in {20, 40, 60, 90}
             /\ \A t \in SstProbes :
                  /\ JsLe(t, sst_avg) => ProbeScores[t] <= IntegerValue(score)
                  /\ JsLe(sst_avg, t) => IntegerValue(score) <= ProbeScores[t]

\* a response was computed for an sst of exactly 30 degrees, scored 60
C9_Witness ==
    /\ FullBundle
    /\ sst_avg = Num(30)
    /\ response.body.climate_stress.score = Num(60)

RECURSIVE IntSum(_)
IntSum(seq) == IF seq = <<>> THEN 0 ELSE Head(seq) + IntSum(Tail(seq))

RECURSIVE GCD(_, _)
GCD(a, b) == IF b = 0 THEN a ELSE GCD(b, a % b)

RECURSIVE CommonMultiple(_)
\* the least common multiple of a sequence of positive integers
CommonMultiple(seq) ==
    IF seq = <<>> THEN 1
    ELSE LET m == CommonMultiple(Tail(seq))
         IN  (Head(seq) * m) \div GCD(Head(seq), m)

Clamp(x, lo, hi) == IF x < lo THEN lo ELSE IF x > hi THEN hi ELSE x

\* every numeric field of the kept records is an integer and every msy_tonnes > 0
ValidRecords ==
    \A i \in DOMAIN results :
      /\ IsIntegerIn(results[i].stock_health_percent, 0, 100)
      /\ IsSmallInteger(results[i].current_catch_tonnes)
      /\ IntegerValue(results[i].current_catch_tonnes) >= 0
      /\ IsSmallInteger(results[i].msy_tonnes)
      /\ IntegerValue(results[i].msy_tonnes) > 0

\* the two scores of the claimed formula, over the common denominator 100 * n * M
\* where M is the least common multiple of the msy_tonnes values
ClaimedScores ==
    LET n == Len(results)
        M == CommonMultiple([i \in 1..n |-> IntegerValue(results[i].msy_tonnes)])
        A == IntSum([i \in 1..n |-> IntegerValue(results[i].stock_health_percent)])
        \* n * M * mean(catch / msy * 100)
        U == IntSum([i \in 1..n |->
                       IntegerValue(results[i].current_catch_tonnes) * 100
                         * (M \div IntegerValue(results[i].msy_tonnes))])
        \* n * M * P
        P == IF U < 120 * n * M THEN U ELSE 120 * n * M
        d == Cardinality({i \in 1..n : results[i].trend \in {"Declining", "Critical"}})
        C == BandScore(sst_avg)
        den == 100 * n * M
        index == 50 * A * M + 25 * (100 * n * M - P) + 15 * (100 * n * M - 100 * d * M)
                   + 10 * (100 - C) * n * M
        risk == 35 * P + 25 * 100 * d * M + 25 * (100 * n * M - A * M) + 15 * C * n * M
    IN  [index |-> Clamp(RoundHalfUp(index, den), 0, 100),
         risk |-> Clamp(RoundHalfUp(risk, den), 0, 100)]

\* records with msy 100, catch 100, trend Stable, stock health 80
ScenarioRecords ==
    \A i \in DOMAIN results :
      /\ results[i].msy_tonnes = Num(100)
      /\ results[i].current_catch_tonnes = Num(100)
      /\ results[i].trend = "Stable"
      /\ results[i].stock_health_percent = Num(80)

\* C10: with every msy_tonnes > 0, sustainability_index is
\* clamp(round(0.5*avgStockHealth + 0.25*(100-P) + 0.15*(100-D) + 0.10*(100-C)), 0, 100)
\* and collapse_risk.score is
\* clamp(round(0.35*P + 0.25*D + 0.25*(100-avgStockHealth) + 0.15*C), 0, 100),
\* P = min(mean utilization, 120), D the Declining/Critical percentage, C the
\* climate score; any number of records msy 100 / catch 100 / Stable / 80 at
\* sst 27 gives index 61 and collapse risk 46.
C10_ScoreFormulas ==
    (FullBundle /\ ValidRecords) =>
      /\ response.body.sustainability_index = Num(ClaimedScores.index)
      /\ response.body.collapse_risk.score = Num(ClaimedScores.risk)
      /\ (ScenarioRecords /\ sst_avg = Num(27)) =>
           /\ response.body.sustainability_index = Num(61)
           /\ response.body.collapse_risk.score = Num(46)

----------------------------------------------------------------------------
(* Monotonicity, levels, the empty result and the projection. *)

\* stock-health percentages a record is raised to
StockProbes == {60, 100}

\* recs with the stock health of record i set to h
Raised(recs, i, h) == [recs EXCEPT ![i].stock_health_percent = Num(h)]

\* the JSON number after is a number exactly when before is one, and then not
\* below it
NotLowered(before, after) ==
    IF before = JsonNull THEN after = JsonNull
    ELSE IsFin(after) /\ JsGe(after, before)

\* C11: raising the stock_health_percent of any single record, all other records,
\* fields and the sst unchanged, never lowers sustainability_index and never
\* raises collapse_risk.score.
C11_MonotoneInStockHealth ==
    FullBundle =>
      \A i \in DOMAIN results :
        \A h \in StockProbes :
          JsGe(Num(h), results[i].stock_health_percent) =>
            LET after == Scores(Raised(results, i, h), sst_avg)
            IN  /\ NotLowered(response.body.sustainability_index,
                              JsonNumber(after.finalIndex))
                /\ NotLowered(JsonNumber(after.finalCollapseRisk),
                              response.body.collapse_risk.score)

\* a bundle of several records was scored, and raising one record's stock health
\* would strictly raise the index and strictly lower the collapse risk
C11_Witness ==
    /\ FullBundle
    /\ Len(results) >= 2
    /\ response.body.sustainability_index # JsonNull
    /\ \E i \in DOMAIN results :
         \E h \in StockProbes :
           LET after == Scores(Raised(results, i, h), sst_avg)
           IN  /\ JsGt(Num(h), results[i].stock_health_percent)
               /\ JsGt(after.finalIndex, response.body.sustainability_index)
               /\ JsLt(after.finalCollapseRisk, response.body.collapse_risk.score)

\* v is a number and at least lo
AtLeast(v, lo) == v # JsonNull /\ JsGe(v, Num(lo))

\* v is a number and below hi
Below(v, hi) == v # JsonNull /\ JsLt(v, Num(hi))

\* v is a number and greater than lo
Over(v, lo) == v # JsonNull /\ JsGt(v, Num(lo))

\* the levels of the scores next to the breakpoints
LevelsAtBreakpoints ==
    /\ SustainabilityLevel(Num(49)) = "Critical"
    /\ SustainabilityLevel(Num(50)) = "Caution"
    /\ SustainabilityLevel(Num(69)) = "Caution"
    /\ SustainabilityLevel(Num(70)) = "Sustainable"
    /\ RiskLevel(Num(29)) = "Low"
    /\ RiskLevel(Num(30)) = "Moderate"
    /\ RiskLevel(Num(60)) = "Moderate"
    /\ RiskLevel(Num(61)) = "High"

\* C12: the levels are assigned from the final rounded and clamped scores:
\* sustainability_level is 'Sustainable' exactly when the index is >= 70,
\* 'Critical' exactly when it is < 50 and 'Caution' otherwise, so 50 and 69 are
\* 'Caution'; collapse_risk.level is 'Low' exactly when the score is < 30, 'High'
\* exactly when it is > 60 and 'Moderate' otherwise, so 30 and 60 are 'Moderate';
\* every result has exactly one level of each kind.
C12_LevelsFromFinalScores ==
    /\ LevelsAtBreakpoints
    /\ FullBundle =>
         LET index == response.body.sustainability_index
             level == response.body.sustainability_level
             score == response.body.collapse_risk.score
             risk == response.body.collapse_risk.level
         IN  /\ level \in {"Sustainable", "Caution", "Critical"}
             /\ level = "Sustainable" <=> AtLeast(index, 70)
             /\ level = "Critical" <=> Below(index, 50)
             /\ risk \in {"Low", "Moderate", "High"}
             /\ risk = "Low" <=> Below(score, 30)
             /\ risk = "High" <=> Over(score, 60)

\* a bundle was answered with the index exactly 50 and the level 'Caution', and
\* with a collapse risk of 'Moderate' or 'High'
C12_Witness ==
    /\ FullBundle
    /\ response.body.sustainability_index = Num(50)
    /\ response.body.sustainability_level = "Caution"
    /\ response.body.collapse_risk.level \in {"Moderate", "High"}

\* the request was answered from the 'end' handler
Answered == rpc = "done" /\ response.status = 200

\* the number of rows of the file whose region is the requested one, letter case
\* disregarded; every row when no region is requested
MatchingCount ==
    Cardinality({i \in DOMAIN emitted :
                   \/ regionQuery \in {Undefined, String(<<>>)}
                   \/ String(ToLowerCase(emitted[i].region)) = regionQuery})

BundleFields ==
    {"region", "sustainability_index", "sustainability_level", "collapse_risk",
     "climate_stress", "projection", "stats", "data"}

\* C13: when no record is left after region filtering (an empty file, or no
\* record whose region equals the query case-insensitively) the response is
\* exactly {count: 0} with no scoring fields; when at least one record matches,
\* all scoring fields are present and stats.count is the number of matching
\* records.
C13_EmptyResultOrFullBundle ==
    Answered =>
      /\ fileRows = <<>>
      /\ MatchingCount = 0 => response.body = [count |-> 0]
      /\ MatchingCount > 0 =>
           /\ DOMAIN response.body = BundleFields
           /\ DOMAIN response.body.collapse_risk = {"score", "level"}
           /\ DOMAIN response.body.climate_stress = {"sst", "score"}
           /\ DOMAIN response.body.projection = {"index_6_month", "change"}
           /\ response.body.stats.count = MatchingCount
           /\ Len(response.body.data) = MatchingCount

\* a file with rows was read to its end for a region none of them belongs to and
\* {count: 0} was sent
C13_Witness ==
    /\ Answered
    /\ Len(emitted) >= 2
    /\ regionQuery = String(ToLowerCase(Pacific))
    /\ response.body = [count |-> 0]

\* max(0, round(index - 0.05 * risk)) for integers index and risk
ClaimedProjection(index, risk) ==
    LET r == RoundHalfUp(20 * index - risk, 20)
    IN  IF r < 0 THEN 0 ELSE r

\* collapse-risk scores the projection is compared over: the ends of the range
\* and the scores around 10, 50 and 90, where 0.05 * risk passes a half and the
\* rounded projection steps down
RiskProbes ==
    {0, 100} \cup {r + e : r \in {10, 50, 90}, e \in {-1, 0, 1}}

\* C14: projection.index_6_month is max(0, round(sustainability_index -
\* 0.05 * collapse_risk.score)); it is never negative, never greater than the
\* current index, at most 5 points below it, and for a fixed index it does not
\* increase when the collapse risk increases.  (When the two scores are not
\* numbers the projection is not a number either.)
C14_Projection ==
    FullBundle =>
      LET index == response.body.sustainability_index
          score == response.body.collapse_risk.score
          proj == response.body.projection.index_6_month
      IN  IF index = JsonNull \/ score = JsonNull
          THEN index = JsonNull /\ score = JsonNull /\ proj = JsonNull
          ELSE /\ proj = Num(ClaimedProjection(IntegerValue(index), IntegerValue(score)))
               /\ IntegerValue(proj) >= 0
               /\ IntegerValue(proj) <= IntegerValue(index)
               /\ IntegerValue(index) - IntegerValue(proj) <= 5
               /\ \A r \in RiskProbes :
                    LET other == Index6Month(ProjectedIndex(index, Num(r)))
                    IN  /\ r >= IntegerValue(score) => JsLe(other, proj)
                        /\ r <= IntegerValue(score) => JsGe(other, proj)

\* a bundle was answered whose projection lies a full 5 points below its index,
\* and one whose projection is held at 0 by the max
C14_Witness ==
    /\ FullBundle
    /\ response.body.sustainability_index # JsonNull
    /\ \/ IntegerValue(response.body.sustainability_index)
            - IntegerValue(response.body.projection.index_6_month) = 5
       \/ /\ response.body.projection.index_6_month = Num(0)
          /\ JsLt(ProjectedIndex(response.body.sustainability_index,
                                 response.body.collapse_risk.score), Num(0))

----------------------------------------------------------------------------
(* Termination of a request to GET /api/fisheries. *)

\* no step of the handler is left to run: the response went out, or the awaited
\* SST request stays open for ever, or the stream failed
Settled == rpc \in {"done", "pending", "error"}

\* C18: every request to /api/fisheries receives exactly one response (404, the
\* {count: 0} body or the full bundle) in every execution, also when the upstream
\* SST request fails or never completes and when reading or parsing the CSV
\* stream raises an error: once nothing is left to run, a response has been sent.
C18_EveryRequestAnswered ==
    Settled => response.status \in {200, 404}

----------------------------------------------------------------------------
(* Input domains of the live feed. *)

\* parseFloat(undefined) parses the string "undefined"
MissingParam == <<"u", "n", "d", "e", "f", "i", "n", "e", "d">>

\* req.query.lat and req.query.lon as sent by the client
QueryPool ==
    { [lat |-> <<"3", "6", ".", "7", "5">>, lon |-> <<"-", "1", "2", "2">>],
      [lat |-> <<"0">>, lon |-> <<"0">>],
      [lat |-> <<"1", "2", "a", "b">>, lon |-> <<VerticalTab, "8", "1">>],
      [lat |-> <<"a", "b", "c">>, lon |-> <<"8", "1">>],
      [lat |-> <<"1", "2">>, lon |-> <<>>],
      [lat |-> <<"-">>, lon |-> <<"5">>],
      [lat |-> <<" ", "+", "1", "e", "1", "x">>, lon |-> <<".", "5", "e">>],
      [lat |-> <<"I", "n", "f", "i", "n", "i", "t", "y">>, lon |-> <<"0", "x", "1", "0">>],
      [lat |-> MissingParam, lon |-> MissingParam] }

\* hourly arrays of an upstream answer: the key missing, or readings with null
\* where the upstream has none and 0 or -0 among them; an array may be shorter
\* than hourly.time
ArrayPool ==
    { Absent,
      Array(<<Num(0), JsonNull>>),
      Array(<<Zero(-1), Num(7), JsonNull>>) }

Stamps == {"2024-01-01T00:00", "2024-01-01T01:00"}

\* hourly.time of the forecast answer
TimePool == {Absent} \cup {Array(t) : t \in SeqsUpTo(Stamps, MaxHours)}

\* answers of marine-api.open-meteo.com/v1/marine
MarineFeeds ==
    { FailedMarine(message) : message \in ErrorMessages }
    \cup { [ok |-> TRUE, message |-> "", hourly |-> FALSE, wave_height |-> Absent,
             sea_surface_temperature |-> Absent] }
    \cup { [ok |-> TRUE, message |-> "", hourly |-> TRUE, wave_height |-> w,
             sea_surface_temperature |-> s] :
             w \in ArrayPool, s \in ArrayPool }

\* answers of api.open-meteo.com/v1/forecast
WeatherFeeds ==
    { FailedWeather(message) : message \in ErrorMessages }
    \cup { [ok |-> TRUE, message |-> "", hourly |-> FALSE, time |-> Absent,
             sea_surface_temperature |-> Absent, wind_speed_10m |-> Absent,
             surface_pressure |-> Absent] }
    \cup { [ok |-> TRUE, message |-> "", hourly |-> TRUE, time |-> t,
             sea_surface_temperature |-> s, wind_speed_10m |-> w, surface_pressure |-> p] :
             t \in TimePool, s \in ArrayPool, w \in ArrayPool, p \in ArrayPool }

----------------------------------------------------------------------------
(* src/api/buoy.js and src/api/buoy-historical.js, app.get("/api/buoy") *)

\* the validation rejecting a request only when both coordinates fail to parse
InvalidCoordinates_Both(latitude, longitude) == IsNaN(latitude) /\ IsNaN(longitude)

\* isNaN(latitude) || isNaN(longitude)
InvalidCoordinates(latitude, longitude) == IsNaN(latitude) \/ IsNaN(longitude)

\* the value undefined
UndefinedValue == [k |-> "undefined", s |-> 1, m |-> <<>>, e |-> 0]

\* hourly?.key, an array or undefined
Field(hourly, array) == IF hourly THEN array ELSE Absent

\* array?.[i], the element or undefined (the first index is 1 here)
At(array, i) ==
    IF array.present /\ i <= Len(array.items) THEN array.items[i] ELSE UndefinedValue

\* a || b, which also replaces 0 and NaN
Coalesce_Falsy(a, b) ==
    IF a.k \in {"null", "undefined", "nan"} \/ a = Num(0) THEN b ELSE a

\* a ?? b
Coalesce(a, b) == IF a.k \in {"null", "undefined"} THEN b ELSE a

\* weather.hourly?.time ?? []
Times(weather) ==
    IF weather.hourly /\ weather.time.present THEN weather.time.items ELSE <<>>

\* the sea_surface_temp of row i: the forecast value in api/buoy.js; the marine
\* value, else the forecast value, in the Express handler
SeaSurfaceTemp(variant, marine, weather, i) ==
    IF variant = "serverless"
    THEN Coalesce(At(weather.sea_surface_temperature, i), JsonNull)
    ELSE Coalesce(At(Field(marine.hourly, marine.sea_surface_temperature), i),
                  Coalesce(At(Field(weather.hourly, weather.sea_surface_temperature), i),
                           JsonNull))

\* times.map((t, i) => ({...}))
MergeRows(variant, marine, weather) ==
    LET times == Times(weather)
    IN  [i \in DOMAIN times |->
           [timestamp |-> times[i],
            sea_surface_temp |-> SeaSurfaceTemp(variant, marine, weather, i),
            wind_speed |-> Coalesce(At(weather.wind_speed_10m, i), JsonNull),
            air_pressure |-> Coalesce(At(weather.surface_pressure, i), JsonNull),
            wave_height |->
              Coalesce(At(Field(marine.hourly, marine.wave_height), i), JsonNull)]]

\* a row as res.json sends it: JSON.stringify writes -0 as 0 and a number
\* that is not finite as null
JsonRow(row) ==
    [timestamp |-> row.timestamp,
     sea_surface_temp |-> JsonNumber(row.sea_surface_temp),
     wind_speed |-> JsonNumber(row.wind_speed),
     air_pressure |-> JsonNumber(row.air_pressure),
     wave_height |-> JsonNumber(row.wave_height)]

\* the rows of the body as res.json sends them
JsonRows(rows) == [i \in DOMAIN rows |-> JsonRow(rows[i])]

----------------------------------------------------------------------------
(* One request to /api/buoy. *)

BuoyInit ==
    /\ bpc = "start"
    /\ bVariant \in {"serverless", "express"}
    /\ \E q \in QueryPool : bLat = q.lat /\ bLon = q.lon
    /\ marineFeed \in MarineFeeds
    /\ weatherFeed \in WeatherFeeds
    /\ InvalidCoordinates(ParseFloat(bLat), ParseFloat(bLon)) =>
         (~marineFeed.hourly /\ ~weatherFeed.hourly)
    /\ bRequests = <<>>
    /\ bResponses = <<>>
    /\ FishIdle
    /\ RiskIdle
    /\ HistIdle
    /\ ChartIdle
    /\ AppIdle

\* the handler up to its first await: 400, or the marine request goes out
BuoyValidate ==
    /\ bpc = "start"
    /\ IF InvalidCoordinates(ParseFloat(bLat), ParseFloat(bLon))
       THEN /\ bResponses' =
                 Append(bResponses,
                        [status |-> 400,
                         body |-> [error |-> "lat and lon query params are required"]])
            /\ bpc' = "done"
            /\ UNCHANGED bRequests
       ELSE /\ bRequests' = Append(bRequests, "marine")
            /\ bpc' = "marine"
            /\ UNCHANGED bResponses
    /\ UNCHANGED <<bVariant, bLat, bLon, marineFeed, weatherFeed>>
    /\ UNCHANGED <<fishVars, riskVars, histVars, chartVars, appVars>>

\* the marine request settles: the forecast request goes out, or the catch
\* answers 502
MarineSettles ==
    /\ bpc = "marine"
    /\ IF marineFeed.ok
       THEN /\ bRequests' = Append(bRequests, "weather")
            /\ bpc' = "weather"
            /\ UNCHANGED bResponses
       ELSE /\ bResponses' =
                 Append(bResponses,
                        FetchFailed(marineFeed.message))
            /\ bpc' = "done"
            /\ UNCHANGED bRequests
    /\ UNCHANGED <<bVariant, bLat, bLon, marineFeed, weatherFeed>>
    /\ UNCHANGED <<fishVars, riskVars, histVars, chartVars, appVars>>

\* the forecast request settles: the merged rows are sent, or the catch
\* answers 502
WeatherSettles ==
    /\ bpc = "weather"
    /\ bResponses' =
         Append(bResponses,
                IF weatherFeed.ok
                THEN [status |-> 200,
                      body |-> [lat |-> JsonNumber(ParseFloat(bLat)),
                                lon |-> JsonNumber(ParseFloat(bLon)),
                                data |->
                                  JsonRows(MergeRows(bVariant, marineFeed, weatherFeed))]]
                ELSE FetchFailed(weatherFeed.message))
    /\ bpc' = "done"
    /\ UNCHANGED <<bVariant, bLat, bLon, marineFeed, weatherFeed, bRequests>>
    /\ UNCHANGED <<fishVars, riskVars, histVars, chartVars, appVars>>

BuoyNext == BuoyValidate \/ MarineSettles \/ WeatherSettles

SpecBuoy == BuoyInit /\ [][BuoyNext]_vars

----------------------------------------------------------------------------
(* Properties of the live feed. *)

BuoyDone == bpc = "done"
BuoySent(status) == BuoyDone /\ Len(bResponses) = 1 /\ bResponses[1].status = status

\* the timestamps of the forecast answer
UpstreamTimes ==
    IF weatherFeed.hourly /\ weatherFeed.time.present THEN weatherFeed.time.items ELSE <<>>

\* whether an answer holds a reading at index i of one of its hourly arrays
HasReading(hourly, array, i) ==
    /\ hourly
    /\ array.present
    /\ i <= Len(array.items)
    /\ array.items[i] # JsonNull

\* the reading at index i, null when there is none
Reading(hourly, array, i) ==
    IF HasReading(hourly, array, i) THEN array.items[i] ELSE JsonNull

\* the upstream sea-surface temperature at index i: the forecast's for
\* api/buoy.js; for the Express handler the marine reading, or the forecast's
\* where the marine answer has none
UpstreamSst(i) ==
    IF bVariant = "express"
         /\ HasReading(marineFeed.hourly, marineFeed.sea_surface_temperature, i)
    THEN marineFeed.sea_surface_temperature.items[i]
    ELSE Reading(weatherFeed.hourly, weatherFeed.sea_surface_temperature, i)

\* the value sent for an upstream reading: null where there is none, otherwise
\* the number itself, a zero of either sign being sent as 0
SentFor(sent, reading) ==
    IF reading = JsonNull THEN sent = JsonNull
    ELSE IF IsZero(reading) THEN sent = Num(0)
    ELSE sent = reading

\* C15: the merge yields exactly one row per upstream weather timestamp, in the
\* same order; each of sea_surface_temp, wind_speed, air_pressure and wave_height
\* is null exactly when the upstream value at that index is absent (null or
\* undefined), and otherwise is the upstream number (the JSON body writes an
\* upstream -0 as 0): a missing reading never becomes 0 and an upstream 0 stays 0.
C15_MergeKeepsMissingAndZero ==
    BuoySent(200) =>
      LET rows == bResponses[1].body.data
      IN  /\ Len(rows) = Len(UpstreamTimes)
          /\ \A i \in DOMAIN rows :
               /\ rows[i].timestamp = UpstreamTimes[i]
               /\ SentFor(rows[i].sea_surface_temp, UpstreamSst(i))
               /\ SentFor(rows[i].wind_speed,
                          Reading(weatherFeed.hourly, weatherFeed.wind_speed_10m, i))
               /\ SentFor(rows[i].air_pressure,
                          Reading(weatherFeed.hourly, weatherFeed.surface_pressure, i))
               /\ SentFor(rows[i].wave_height,
                          Reading(marineFeed.hourly, marineFeed.wave_height, i))
               /\ rows[i].wind_speed = JsonNull <=>
                    ~HasReading(weatherFeed.hourly, weatherFeed.wind_speed_10m, i)
               /\ rows[i].wave_height = Num(0) <=>
                    /\ HasReading(marineFeed.hourly, marineFeed.wave_height, i)
                    /\ IsZero(marineFeed.wave_height.items[i])

\* rows were merged from answers holding a 0, a -0, a null and a too short
\* array: one row carries the wind speed 0 and another a null, an upstream wave
\* height of -0 was sent as 0 and some sea-surface temperature is null
C15_Witness ==
    /\ BuoySent(200)
    /\ Len(bResponses[1].body.data) >= 2
    /\ marineFeed.wave_height.present
    /\ marineFeed.wave_height.items[1] = Zero(-1)
    /\ bResponses[1].body.data[1].wave_height = Num(0)
    /\ \E i, j \in DOMAIN bResponses[1].body.data :
         /\ bResponses[1].body.data[i].wind_speed = Num(0)
         /\ bResponses[1].body.data[j].wind_speed = JsonNull
         /\ bResponses[1].body.data[j].air_pressure = Num(7)
    /\ \E i \in DOMAIN bResponses[1].body.data :
         bResponses[1].body.data[i].sea_surface_temp = JsonNull

\* a query string that starts with a number: after any leading white space
\* and an optional sign, a digit, a point followed by a digit, or Infinity
StartsWithNumber(chars) ==
    LET str == TrimStart(chars)
        rest == IF str # <<>> /\ Head(str) \in {"+", "-"} THEN Tail(str) ELSE str
    IN  /\ rest # <<>>
        /\ \/ Head(rest) \in Digits
           \/ Head(rest) = "." /\ Len(rest) >= 2 /\ rest[2] \in Digits
           \/ StartsWith(rest, InfinityWord)

ValidQuery == StartsWithNumber(bLat) /\ StartsWithNumber(bLon)

\* C20: when lat or lon does not parse to a number the handler answers 400 and
\* makes no upstream request; otherwise it requests the marine data first and the
\* weather data second, answers 200 with {lat, lon, data} only if both succeed and
\* 502 if either fails, the weather request never being issued when the marine
\* request fails; exactly one response is sent per request.
C20_BuoyRequestProtocol ==
    /\ Len(bResponses) <= 1
    /\ BuoyDone <=> Len(bResponses) = 1
    /\ ~ValidQuery =>
         /\ bRequests = <<>>
         /\ BuoyDone => bResponses[1].status = 400
    /\ ValidQuery =>
         /\ bRequests \in {<<>>, <<"marine">>, <<"marine", "weather">>}
         /\ bRequests = <<>> <=> bpc = "start"
         /\ bpc = "marine" => bRequests = <<"marine">>
         /\ bpc = "weather" => bRequests = <<"marine", "weather">>
         /\ BuoyDone =>
              /\ bResponses[1].status \in {200, 502}
              /\ bResponses[1].status = 200 => (marineFeed.ok /\ weatherFeed.ok)
              /\ (~marineFeed.ok \/ ~weatherFeed.ok) => bResponses[1].status = 502
              /\ ~marineFeed.ok => bRequests = <<"marine">>
              /\ marineFeed.ok => bRequests = <<"marine", "weather">>
              /\ bResponses[1].status = 200 =>
                   /\ DOMAIN bResponses[1].body = {"lat", "lon", "data"}
                   /\ bLat = <<"0">> => bResponses[1].body.lat = Num(0)
                   /\ bLat = <<"3", "6", ".", "7", "5">> =>
                        bResponses[1].body.lat = Fin(3675, 100)
                   /\ bLon = <<"-", "1", "2", "2">> =>
                        bResponses[1].body.lon = Num(-122)

\* a request with valid coordinates got its marine answer, the forecast request
\* timed out and 502 was sent with its message after both requests had been
\* issued
C20_Witness ==
    /\ BuoySent(502)
    /\ bResponses[1].body.error = "Failed to fetch live data: timeout of 10000ms exceeded"
    /\ ValidQuery
    /\ marineFeed.ok
    /\ ~weatherFeed.ok
    /\ bRequests = <<"marine", "weather">>

----------------------------------------------------------------------------
(* src/api/buoy-historical.js, handler and app.get("/api/buoy-historical") *)

\* rows of 46042_master_2012_2023.csv as csv-parser hands them over
HistRowPool ==
    { [date |-> "2012-01-01 00:00", WTMP |-> "12.5", WVHT |-> "1.2"],
      [date |-> "2012-01-01 01:00", WTMP |-> "MM", WVHT |-> "0"],
      [date |-> "2023-06-30 23:00", WTMP |-> "14.1", WVHT |-> "MM"] }

HistInit ==
    /\ hpc = "start"
    /\ hVariant \in {"serverless", "express"}
    /\ hFileExists \in BOOLEAN
    /\ hFile \in SeqsUpTo(HistRowPool, MaxRows)
    /\ hFileExists = FALSE => hFile = <<>>
    /\ hPos = 0
    /\ hResults = <<>>
    /\ hResponses = <<>>
    /\ FishIdle
    /\ RiskIdle
    /\ BuoyIdle
    /\ ChartIdle
    /\ AppIdle

\* if (!fs.existsSync(filePath)) return 404; otherwise the file is opened, piped
\* into the parser and the three listeners are registered on the parser
HistCheckFile ==
    /\ hpc = "start"
    /\ IF hFileExists
       THEN hpc' = "stream" /\ UNCHANGED hResponses
       ELSE /\ hpc' = "done"
            /\ hResponses' =
                 Append(hResponses,
                        [status |-> 404,
                         body |-> [error |-> "Historical data file not found"]])
    /\ UNCHANGED <<hVariant, hFileExists, hFile, hPos, hResults>>
    /\ UNCHANGED <<fishVars, riskVars, buoyVars, chartVars, appVars>>

\* on 'data': results.push(data)
HistOnData ==
    /\ hpc = "stream"
    /\ hPos < Len(hFile)
    /\ hPos' = hPos + 1
    /\ hResults' = Append(hResults, hFile[hPos + 1])
    /\ UNCHANGED <<hpc, hVariant, hFileExists, hFile, hResponses>>
    /\ UNCHANGED <<fishVars, riskVars, buoyVars, chartVars, appVars>>

\* on 'end': res.status(200).json(results) / res.json(results)
HistOnEnd ==
    /\ hpc = "stream"
    /\ hPos = Len(hFile)
    /\ hResponses' = Append(hResponses, [status |-> 200, body |-> hResults])
    /\ hpc' = "done"
    /\ UNCHANGED <<hVariant, hFileExists, hFile, hPos, hResults>>
    /\ UNCHANGED <<fishVars, riskVars, buoyVars, chartVars, appVars>>

\* the parser emits 'error' (it is destroyed and emits nothing afterwards): the
\* 'error' listener answers 500
HistOnError ==
    /\ hpc = "stream"
    /\ hResponses' =
         Append(hResponses, [status |-> 500, body |-> [error |-> "Failed to read CSV"]])
    /\ hpc' = "done"
    /\ UNCHANGED <<hVariant, hFileExists, hFile, hPos, hResults>>
    /\ UNCHANGED <<fishVars, riskVars, buoyVars, chartVars, appVars>>

\* the file stream emits 'error' (the file cannot be opened or read): pipe()
\* returns the parser, so the listeners are on the parser only; pipe() does not
\* forward the error and does not end the parser, and no listener runs
HistReadError ==
    /\ hpc = "stream"
    /\ hpc' = "failed"
    /\ UNCHANGED <<hVariant, hFileExists, hFile, hPos, hResults, hResponses>>
    /\ UNCHANGED <<fishVars, riskVars, buoyVars, chartVars, appVars>>

HistNext == HistCheckFile \/ HistOnData \/ HistOnEnd \/ HistOnError \/ HistReadError

SpecHist == HistInit /\ [][HistNext]_vars

----------------------------------------------------------------------------
(* Properties of the historical archive endpoint. *)

\* no listener of the request is left to run
HistSettled == hpc \in {"done", "failed"}

\* C19: every request to the historical-archive endpoint gets exactly one
\* response and never two: 404 if the file does not exist (no stream is opened),
\* 200 with all parsed rows in file order once the stream ends, or 500 if the
\* stream reports an error; a 'data' event arriving after a response has been
\* sent never changes what was sent, and 'end' and 'error' never both produce a
\* response for the same request.
C19_ExactlyOneResponse ==
    /\ Len(hResponses) <= 1
    /\ HistSettled => Len(hResponses) = 1
    /\ (HistSettled /\ Len(hResponses) = 1) =>
         /\ hResponses[1].status \in {200, 404, 500}
         /\ hResponses[1].status = 404 <=> ~hFileExists
         /\ hResponses[1].status = 404 => (hPos = 0 /\ hResults = <<>>)
         /\ hResponses[1].status = 200 => hResponses[1].body = hFile

----------------------------------------------------------------------------
(* Input domains of the chart analytics. *)

\* observations: a value is a number, or NaN where the reading is missing
ObservationPool ==
    { [WTMP |-> Num(10), WVHT |-> NaN],
      [WTMP |-> Num(50), WVHT |-> Num(0)],
      [WTMP |-> NaN, WVHT |-> Num(2)],
      [WTMP |-> Num(0), WVHT |-> NaN] }

\* a series with the water temperatures 10, 10, 10, 10 and 50
ScenarioSeries ==
    <<[WTMP |-> Num(10), WVHT |-> NaN], [WTMP |-> Num(10), WVHT |-> NaN],
      [WTMP |-> Num(10), WVHT |-> NaN], [WTMP |-> Num(10), WVHT |-> NaN],
      [WTMP |-> Num(50), WVHT |-> Num(0)]>>

\* the window of the chart
ChartWindow == 24

Windows == {1, 2, ChartWindow}

----------------------------------------------------------------------------
(* utils/anomaly: computeStats and computeMovingAverage as sections 4.1 and 4.2 *)
(* of the specification describe them; HistoricalChart calls them.            *)

\* the values of one parameter, in series order
Column(series, key) == [i \in DOMAIN series |-> series[i][key]]

\* a value that takes part in the statistics: present and numeric
IsValid(v) == IsFin(v)

ValidValues(series, key) ==
    LET column == Column(series, key)
    IN  SelectSeq2(column, [i \in DOMAIN column |-> IsValid(column[i])])

RECURSIVE MinOf(_)
MinOf(values) ==
    IF Len(values) = 1 THEN values[1] ELSE MathMin(Head(values), MinOf(Tail(values)))

RECURSIVE MaxOf(_)
MaxOf(values) ==
    IF Len(values) = 1 THEN values[1] ELSE MathMax(Head(values), MaxOf(Tail(values)))

Square(d) == JsMul(d, d)

\* (x - mean)^2
SquaredDeviation(x, mean) == Square(JsSub(x, mean))

\* the statistics with every missing value read as 0
computeStats_MissingAsZero(series, key) ==
    LET column == Column(series, key)
        values == [i \in DOMAIN column |-> IF IsValid(column[i]) THEN column[i] ELSE Num(0)]
        n == Num(Len(values))
        mean == JsDiv(Reduce(values, Num(0)), n)
    IN  IF Len(values) = 0 THEN ZeroStats
        ELSE [mean |-> mean, variance |-> Num(0), min |-> MinOf(values),
              max |-> MaxOf(values), anomalyCount |-> 0, moderateCount |-> 0,
              extremeCount |-> 0]

\* the statistics record of the valid values
StatsRecord(values, mean, variance, moderate, extreme) ==
    [mean |-> mean, variance |-> variance, min |-> MinOf(values),
     max |-> MaxOf(values), anomalyCount |-> moderate + extreme,
     moderateCount |-> moderate, extremeCount |-> extreme]

\* (x - mean)^2 lies in [lo * variance, hi * variance), without the upper limit
\* when hi is 0; no value does when the variance is 0
InBand(deviation, variance, lo, hi) ==
    /\ JsGt(variance, Num(0))
    /\ JsGe(deviation, JsMul(Num(lo), variance))
    /\ hi # 0 => JsLt(deviation, JsMul(Num(hi), variance))

\* the statistics with the anomalies counted: 2 <= |z| < 3 and |z| >= 3
StatsAround(values, mean, variance) ==
    StatsRecord(values, mean, variance,
                FilterLength([i \in DOMAIN values |->
                                InBand(SquaredDeviation(values[i], mean), variance, 4, 9)]),
                FilterLength([i \in DOMAIN values |->
                                InBand(SquaredDeviation(values[i], mean), variance, 9, 0)]))

\* the statistics of values with this mean
StatsWithMean(values, mean) ==
    StatsAround(values, mean,
                JsDiv(Reduce([i \in DOMAIN values |-> SquaredDeviation(values[i], mean)],
                             Num(0)),
                      Num(Len(values))))

\* the statistics of the valid values of a series
StatsOf(values) ==
    IF Len(values) = 0 THEN ZeroStats
    ELSE StatsWithMean(values, JsDiv(Reduce(values, Num(0)), Num(Len(values))))

\* computeStats(series, parameterKey): mean, population variance (the square of
\* stdDev), min and max of the valid values, and the values with 2 <= |z| < 3
\* (moderate) and |z| >= 3 (extreme), z = (x - mean) / stdDev and 0 when stdDev is
\* 0; all zero when no value is valid
computeStats(series, key) == StatsOf(ValidValues(series, key))

RECURSIVE SlideCountingAll(_, _, _, _, _)
\* the running window with every element falling out counted as one value less,
\* valid or not
SlideCountingAll(column, W, i, sum, count) ==
    IF i > Len(column) THEN <<>>
    ELSE LET entered == IsValid(column[i])
             left == i - W >= 1
             s == JsSub(IF entered THEN JsAdd(sum, column[i]) ELSE sum,
                        IF left /\ IsValid(column[i - W]) THEN column[i - W] ELSE Num(0))
             c == (IF entered THEN count + 1 ELSE count) - (IF left THEN 1 ELSE 0)
         IN  <<IF c > 0 THEN JsDiv(s, Num(c)) ELSE JsonNull>>
               \o SlideCountingAll(column, W, i + 1, s, c)

RECURSIVE Slide(_, _, _, _, _)
\* the running sum and the running count of the valid values in the window ending
\* at position i: the entering element is added and the element falling out is
\* subtracted, each only when valid; the output is sum / count, missing when
\* count is 0
Slide(column, W, i, sum, count) ==
    IF i > Len(column) THEN <<>>
    ELSE LET entered == IsValid(column[i])
             left == i - W >= 1 /\ IsValid(column[i - W])
             s == JsSub(IF entered THEN JsAdd(sum, column[i]) ELSE sum,
                        IF left THEN column[i - W] ELSE Num(0))
             c == (IF entered THEN count + 1 ELSE count) - (IF left THEN 1 ELSE 0)
         IN  <<IF c > 0 THEN JsDiv(s, Num(c)) ELSE JsonNull>>
               \o Slide(column, W, i + 1, s, c)

\* the moving average that loses track of the missing values leaving the window
computeMovingAverage_CountingAll(series, key, W) ==
    SlideCountingAll(Column(series, key), W, 1, Num(0), 0)

\* computeMovingAverage(series, parameterKey, windowSize)
computeMovingAverage(series, key, W) == Slide(Column(series, key), W, 1, Num(0), 0)

----------------------------------------------------------------------------
(* The analytics called on an observation series. *)

ChartInit ==
    /\ observations \in SeqsUpTo(ObservationPool, MaxSeries) \cup {ScenarioSeries}
    /\ paramKey \in {"WTMP", "WVHT"}
    /\ windowSize \in Windows
    /\ cfn = "none"
    /\ statsOut = ZeroStats
    /\ maCalls = 0
    /\ maOut = <<>>
    /\ maPrev = <<>>
    /\ FishIdle
    /\ RiskIdle
    /\ BuoyIdle
    /\ HistIdle
    /\ AppIdle

\* computeStats(data, p.key)
CallComputeStats ==
    /\ cfn # "computeStats"
    /\ statsOut' = computeStats(observations, paramKey)
    /\ cfn' = "computeStats"
    /\ UNCHANGED <<observations, paramKey, windowSize, maCalls, maOut, maPrev>>
    /\ UNCHANGED <<fishVars, riskVars, buoyVars, histVars, appVars>>

\* computeMovingAverage(data, p.key, 24), and with the other windows
CallComputeMovingAverage ==
    /\ maCalls < 2
    /\ maOut' = computeMovingAverage(observations, paramKey, windowSize)
    /\ maPrev' = maOut
    /\ maCalls' = maCalls + 1
    /\ cfn' = "computeMovingAverage"
    /\ UNCHANGED <<observations, paramKey, windowSize, statsOut>>
    /\ UNCHANGED <<fishVars, riskVars, buoyVars, histVars, appVars>>

ChartNext == CallComputeStats \/ CallComputeMovingAverage

SpecChart == ChartInit /\ [][ChartNext]_vars

----------------------------------------------------------------------------
(* Properties of the chart analytics. *)

\* the positions of the series holding a valid value of the parameter
ValidAt == {i \in DOMAIN observations : IsFin(observations[i][paramKey])}

\* the valid values of the parameter, which are integers in the series used
ValueAt(i) == IntegerValue(observations[i][paramKey])

RECURSIVE SumAt(_)
SumAt(positions) ==
    IF positions = {} THEN 0
    ELSE LET i == CHOOSE j \in positions : TRUE
         IN  ValueAt(i) + SumAt(positions \ {i})

\* C16: computeStats returns min <= mean <= max whenever the series has at least
\* one valid (non-missing, numeric) value of the parameter, and all-zero
\* statistics, no NaN and no failure, when it has none; missing values never count
\* as zero in any statistic: min and max are the least and the greatest valid
\* value and mean is the sum of the valid values over their number.  The values
\* 10, 10, 10, 10, 50 give the mean 18 and at least one anomaly.
C16_StatsOverValidValues ==
    cfn = "computeStats" =>
      IF ValidAt = {}
      THEN statsOut = ZeroStats
      ELSE /\ IsFin(statsOut.mean) /\ IsFin(statsOut.min) /\ IsFin(statsOut.max)
           /\ IsFin(statsOut.variance)
           /\ JsLe(statsOut.min, statsOut.mean)
           /\ JsLe(statsOut.mean, statsOut.max)
           /\ \E i \in ValidAt : statsOut.min = Num(ValueAt(i))
           /\ \E i \in ValidAt : statsOut.max = Num(ValueAt(i))
           /\ \A i \in ValidAt :
                /\ JsLe(statsOut.min, Num(ValueAt(i)))
                /\ JsLe(Num(ValueAt(i)), statsOut.max)
           /\ statsOut.mean = Fin(SumAt(ValidAt), Cardinality(ValidAt))
           /\ statsOut.anomalyCount = statsOut.moderateCount + statsOut.extremeCount
           /\ statsOut.anomalyCount <= Cardinality(ValidAt)
           /\ (observations = ScenarioSeries /\ paramKey = "WTMP") =>
                (statsOut.mean = Num(18) /\ statsOut.anomalyCount >= 1)

\* statistics were computed for a series with missing values around valid ones,
\* none of them 0: the minimum is above 0 and the mean is not drawn towards 0
C16_Witness ==
    /\ cfn = "computeStats"
    /\ Len(observations) >= 3
    /\ Cardinality(ValidAt) >= 2
    /\ Cardinality(ValidAt) < Len(observations)
    /\ statsOut.min = Num(10)
    /\ statsOut.max = Num(50)
    /\ JsGt(statsOut.mean, Num(10))

\* the mean of the valid values at the positions max(1, i - W + 1)..i, missing
\* when there is none (the first position is 1 here)
WindowMean(i, W) ==
    LET from == IF i - W + 1 > 1 THEN i - W + 1 ELSE 1
        positions == ValidAt \cap (from..i)
    IN  IF positions = {} THEN JsonNull
        ELSE Fin(SumAt(positions), Cardinality(positions))

\* C17: computeMovingAverage(series, key, W) returns a sequence of exactly the
\* input length whose element i is the mean of the valid values at the positions
\* max(0, i-W+1)..i, or missing (not 0) when that window holds no valid value: the
\* running-sum / running-count implementation agrees with the direct per-window
\* definition for every series, with missing values entering and leaving the
\* window; calling it twice on the same input gives identical output.
C17_MovingAverageIsWindowMean ==
    cfn = "computeMovingAverage" =>
      /\ Len(maOut) = Len(observations)
      /\ \A i \in DOMAIN maOut : maOut[i] = WindowMean(i, windowSize)
      /\ maCalls = 2 => maOut = maPrev

\* the moving average was computed twice with a window of 2 over a series in
\* which a missing value left the window: the output is missing at the place
\* of that value and numeric two places on, where the window no longer holds it
C17_Witness ==
    /\ cfn = "computeMovingAverage"
    /\ maCalls = 2
    /\ windowSize = 2
    /\ \E i \in DOMAIN maOut :
         /\ i + 2 \in DOMAIN maOut
         /\ ~IsFin(observations[i][paramKey])
         /\ maOut[i] = JsonNull
         /\ maOut[i + 2] # JsonNull

----------------------------------------------------------------------------
(* The App component: parameter toggles, the view mode and the year filter *)
(* with its render cap over the rows the archive hook returns.             *)

\* the parameter keys the sidebar offers
ParamKeys == {"sea_surface_temp", "wind_speed", "air_pressure", "wave_height"}

\* prev.includes(key)
Includes(prev, key) == \E i \in DOMAIN prev : prev[i] = key

\* prev.filter((k) => k !== key)
Without(prev, key) == SelectSeq2(prev, [i \in DOMAIN prev |-> prev[i] # key])

\* the toggle that also removes the last active parameter
toggleParam_NoFloor(prev, key) ==
    IF Includes(prev, key) THEN Without(prev, key) ELSE Append(prev, key)

\* the updater toggleParam hands to setActiveParams
toggleParam(prev, key) ==
    IF Includes(prev, key)
    THEN IF Len(prev) > 1 THEN Without(prev, key) ELSE prev
    ELSE Append(prev, key)

MAX_RENDER_ROWS == 5000

\* the render cap, and one scaled down to the archives explored here
RenderCaps == {2, MAX_RENDER_ROWS}

\* years the year filter can be set to, out of YEARS
YearChoices == {2023, 2022, 2012}

\* years of the rows of the archive
ArchiveYears == {2022, 2023}

\* archives: each row with the year the filter reads (r.year) and its position
\* in the file
ArchivePool ==
    { [i \in DOMAIN years |-> [year |-> years[i], row |-> i]] :
        years \in SeqsUpTo(ArchiveYears, MaxArchive) }

\* the year filter with the cap keeping the first rows
FilterAndCap_FirstRows(allData, year, cap) ==
    LET yearRows == SelectSeq2(allData, [i \in DOMAIN allData |-> allData[i].year = year])
    IN  IF Len(yearRows) > cap THEN SubSeq(yearRows, 1, cap) ELSE yearRows

\* the filteredHistorical memo: the rows of the year, cut to the last cap rows
FilterAndCap(allData, year, cap) ==
    LET yearRows == SelectSeq2(allData, [i \in DOMAIN allData |-> allData[i].year = year])
    IN  IF Len(yearRows) > cap
        THEN SubSeq(yearRows, Len(yearRows) - cap + 1, Len(yearRows))
        ELSE yearRows

AppInit ==
    /\ activeParams = <<"sea_surface_temp", "wind_speed", "air_pressure">>
    /\ viewMode = "live"
    /\ selectedYear = 2023
    /\ maxRenderRows \in RenderCaps
    /\ archive \in ArchivePool
    /\ histAllData = <<>>
    /\ hasLoaded = FALSE
    /\ histLoading = FALSE
    /\ filteredHistorical = <<>>
    /\ FishIdle
    /\ RiskIdle
    /\ BuoyIdle
    /\ HistIdle
    /\ ChartIdle

\* onToggleParam: setActiveParams with the updater
ToggleParam ==
    /\ \E key \in ParamKeys : activeParams' = toggleParam(activeParams, key)
    /\ UNCHANGED <<viewMode, selectedYear, maxRenderRows, archive, histAllData, hasLoaded,
                   histLoading, filteredHistorical>>
    /\ UNCHANGED <<fishVars, riskVars, buoyVars, histVars, chartVars>>

\* setViewMode('live') / setViewMode('historical'). The effect that runs
\* because isHistorical changed only calls the hook's load(); what that call
\* does to the values the hook returns is a step of HookReturns
SetViewMode ==
    /\ \E mode \in {"live", "historical"} \ {viewMode} : viewMode' = mode
    /\ UNCHANGED <<activeParams, selectedYear, maxRenderRows, archive, histAllData,
                   hasLoaded, histLoading, filteredHistorical>>
    /\ UNCHANGED <<fishVars, riskVars, buoyVars, histVars, chartVars>>

\* setSelectedYear(Number(e.target.value)) and the memo recomputed for the year
SetSelectedYear ==
    /\ \E year \in YearChoices \ {selectedYear} :
         /\ selectedYear' = year
         /\ filteredHistorical' = FilterAndCap(histAllData, year, maxRenderRows)
    /\ UNCHANGED <<activeParams, viewMode, maxRenderRows, archive, histAllData, hasLoaded,
                   histLoading>>
    /\ UNCHANGED <<fishVars, riskVars, buoyVars, histVars, chartVars>>

\* useHistoricalBuoyData() returns other values on a render. The hook is not
\* among the sources, so every change of allData, hasLoaded and loading is
\* possible at any time, whether load() was called or not; the memo is
\* recomputed from the allData returned
HookReturns ==
    /\ \E allData \in {<<>>, archive}, loaded \in BOOLEAN, loading \in BOOLEAN :
         /\ <<allData, loaded, loading>> # <<histAllData, hasLoaded, histLoading>>
         /\ histAllData' = allData
         /\ hasLoaded' = loaded
         /\ histLoading' = loading
         /\ filteredHistorical' = FilterAndCap(allData, selectedYear, maxRenderRows)
    /\ UNCHANGED <<activeParams, viewMode, selectedYear, maxRenderRows, archive>>
    /\ UNCHANGED <<fishVars, riskVars, buoyVars, histVars, chartVars>>

AppNext == ToggleParam \/ SetViewMode \/ SetSelectedYear \/ HookReturns

SpecApp == AppInit /\ [][AppNext]_vars

----------------------------------------------------------------------------
(* Claims about the App component.                                         *)

\* the keys of a list of parameters
KeysOf(params) == { params[i] : i \in DOMAIN params }

\* C21: after any sequence of toggleParam calls from the initial three active
\* parameters, activeParams is never empty and holds no key twice; toggling an
\* inactive key appends it, toggling an active key removes it (the others keep
\* their order) unless it is the only active one, and then nothing changes.
C21_ActiveParamsNeverEmptyNoDuplicates ==
    /\ Len(activeParams) >= 1
    /\ Cardinality(KeysOf(activeParams)) = Len(activeParams)
    /\ \A key \in ParamKeys :
         LET toggled == toggleParam(activeParams, key)
         IN  IF key \notin KeysOf(activeParams)
             THEN toggled = activeParams \o <<key>>
             ELSE IF Len(activeParams) = 1
             THEN toggled = activeParams
             ELSE /\ Len(toggled) = Len(activeParams) - 1
                  /\ KeysOf(toggled) = KeysOf(activeParams) \ {key}
                  /\ \A i, j \in DOMAIN toggled :
                       i < j =>
                         \E a, b \in DOMAIN activeParams :
                           a < b /\ activeParams[a] = toggled[i] /\ activeParams[b] = toggled[j]

\* the three initial parameters were toggled off and only the appended fourth
\* is left, so that a further toggle of it has to leave the state alone
C21_Witness == activeParams = <<"wave_height">>

\* positions in the archive of the loaded rows of the selected year
YearRowIds == { i \in DOMAIN histAllData : histAllData[i].year = selectedYear }

\* positions in the archive of the rows handed to the charts
ShownRowIds == { filteredHistorical[i].row : i \in DOMAIN filteredHistorical }

\* C23: the rows handed to the historical charts and analytics are a
\* contiguous, order-preserving suffix of the rows of the selected year: all of
\* them when they are at most the cap, otherwise exactly the last cap rows;
\* never more than the cap and never a row of another year.
C23_FilteredIsCappedSuffixOfYear ==
    /\ Len(filteredHistorical) <= maxRenderRows
    /\ \A i \in DOMAIN filteredHistorical :
         /\ filteredHistorical[i].year = selectedYear
         /\ filteredHistorical[i].row \in YearRowIds
         /\ histAllData[filteredHistorical[i].row] = filteredHistorical[i]
    /\ \A i, j \in DOMAIN filteredHistorical :
         i < j => filteredHistorical[i].row < filteredHistorical[j].row
    /\ Len(filteredHistorical) =
         IF Cardinality(YearRowIds) <= maxRenderRows
         THEN Cardinality(YearRowIds) ELSE maxRenderRows
    /\ \A shown \in ShownRowIds : \A other \in YearRowIds \ ShownRowIds : other < shown

\* the year has more rows than the cap, a row of another year lies between
\* them, and the earliest row of the year was cut
C23_Witness ==
    /\ hasLoaded
    /\ Cardinality(YearRowIds) > maxRenderRows
    /\ Len(filteredHistorical) = maxRenderRows
    /\ \E i \in DOMAIN histAllData :
         /\ histAllData[i].year # selectedYear
         /\ \E a, b \in YearRowIds : a < i /\ i < b
    /\ \E cut \in YearRowIds : cut \notin ShownRowIds

----------------------------------------------------------------------------
(* Agreement of evaluateSuitability and calculateSustainabilityScore. *)

\* evaluateSuitability's temperature rule fires for s once the legal-status
\* and season rules are out of its way
TempRuleFires(s, data) ==
    evaluateSuitability([s EXCEPT !.legal_status = "Open", !.season_months = AllYear],
                        data).reason.rule = "temp"

\* evaluateSuitability's wave rule fires for s once the legal-status, season
\* and temperature rules are out of its way
WaveRuleFires(s, data) ==
    evaluateSuitability([s EXCEPT !.legal_status = "Open", !.season_months = AllYear,
                                  !.temp_range = <<data.sea_surface_temp,
                                                    data.sea_surface_temp>>],
                        data).reason.rule = "wave"

\* every species of the non-empty list is suitable under the conditions now
AllSuitable ==
    /\ Len(speciesList) > 0
    /\ \A i \in DOMAIN speciesList :
         /\ evaluateSuitability(speciesList[i], currentData).suitable
         /\ speciesList[i].stock_health >= 0

\* Math.round of the blend of the mean stock health with the shares t / n and
\* w / n of the n species of the list, in the program's arithmetic
Blend(list, t, w) ==
    LET n == Num(Len(list))
        mean == JsDiv(Reduce([i \in DOMAIN list |-> Num(list[i].stock_health)], Num(0)), n)
    IN  MathRound(JsAdd(JsAdd(JsMul(mean, Fin(4, 10)),
                              JsMul(JsMul(JsDiv(Num(t), n), Num(100)), Fin(4, 10))),
                        JsMul(JsMul(JsDiv(Num(w), n), Num(100)), Fin(2, 10))))

LowSustainabilityIn(list) ==
    \E i \in DOMAIN list : list[i].text = "Low Sustainability Index"

\* C24: suitability and the score agree on the physical rules: a species counts
\* in tempScore exactly when evaluateSuitability's temperature rule would not
\* fire and in waveScore exactly when its wave rule would not fire, so the score
\* is the rounded blend of the stock health and the shares of species those
\* rules pass; if every species of a non-empty list is suitable, the score is at
\* least 60 and generateFisheriesAlerts, given that score, emits no
\* low-sustainability warning.
C24_SuitabilityAndScoreAgree ==
    LET list == speciesList
        n == Len(list)
        score == ScoreTable[list, currentData]
        tempPass == Cardinality({ i \in DOMAIN list : ~TempRuleFires(list[i], currentData) })
        wavePass == Cardinality({ i \in DOMAIN list : ~WaveRuleFires(list[i], currentData) })
    IN  /\ \A i \in DOMAIN list :
             /\ TempSuitable(list[i], currentData) <=> ~TempRuleFires(list[i], currentData)
             /\ WaveSafe(list[i], currentData) <=> ~WaveRuleFires(list[i], currentData)
        /\ (Scored /\ n > 0) =>
             /\ sustainabilityScore = score
             /\ sustainabilityScore = Blend(list, tempPass, wavePass)
        /\ AllSuitable =>
             /\ JsGe(score, Num(60))
             /\ ~LowSustainabilityIn(generateFisheriesAlerts(list, score, currentData))
             /\ Scored => JsGe(sustainabilityScore, Num(60))
             /\ (Alerted /\ scoreArg = score) => ~LowSustainabilityIn(alerts)

\* the alerts were generated from the engine's own score for a list whose
\* species are all suitable, with the temperature at the upper end of a range,
\* the wave height at a limit and a species of stock health 0
C24_Witness ==
    /\ Alerted
    /\ AllSuitable
    /\ scoreArg = ScoreTable[speciesList, currentData]
    /\ ~LowSustainabilityIn(alerts)
    /\ \E i \in DOMAIN speciesList :
         currentData.sea_surface_temp = speciesList[i].temp_range[2]
    /\ \E i \in DOMAIN speciesList :
         currentData.wave_height = speciesList[i].max_wave_height
    /\ \E i \in DOMAIN speciesList : speciesList[i].stock_health = 0

============================================================================
